---- MODULE Spec2Model ----
(***************************************************************************)
(* A model of clips-rs: the Environment handle, the command channel, the   *)
(* worker loop that owns the native CLIPS environment, and the             *)
(* CLIPSEnvironment operations the worker executes.                        *)
(*                                                                         *)
(* Spec      : handle + channel + worker loop (lib.rs 76-109, 410-512).    *)
(* FairSpec  : Spec with the scheduling fairness of threads and channels.  *)
(* SpecUDF   : the worker executing add_udf / remove_udf / run.            *)
(* SpecRouter: the worker executing add_router / run with router I/O.      *)
(* SpecSignal: the worker executing add_router / run / run_limit, the     *)
(*             host keeping the routers whose registration succeeded.      *)
(* SpecGlobals: the worker executing defglobal loads and restore_globals.  *)
(* SpecBuilders: the worker executing assert_fact / make_instance, and     *)
(*             Drop for CLIPSEnvironment when it ends.                     *)
(* SpecLifecycle / FairSpecLifecycle: Spec with the drop of the worker's   *)
(*             environment when its thread ends.                           *)
(* SpecSurface / FairSpecSurface: a caller that wants one operation of the *)
(*             worker, and the methods the handle has.                     *)
(* SpecBridge: the worker executing add_udf / run, a callback in steps.    *)
(* SpecReentrant / FairSpecReentrant: Spec with a callback that calls the  *)
(*             handle it captured.                                         *)
(* SpecPersist: the worker executing assert_fact / make_instance and the   *)
(*             binary save and load of facts and instances.                *)
(* SpecSlots: assert_fact and make_instance put by put.                    *)
(* SpecVisible: assert_fact put by put, then run and the binary save of    *)
(*              the facts.                                                 *)
(* SpecOutbound: typed host values converted to engine values and read    *)
(*               back, and engine integers read as unsigned.               *)
(* SpecLoop: Spec, and a caller that gives up its wait for a response.     *)
(* SpecStrings: registrations, removals and the environment's teardown.    *)
(* SpecChdir: two Environments of one process and their chdir commands.    *)
(* SpecMultifield: host collections marshalled into engine multifields.    *)
(* SpecUdfValue: the arguments of a user function converted to host types. *)
(* SpecHostValue / SpecEngineValue: the value conversions of value.rs,     *)
(*             applied to host values and to engine values.                *)
(*                                                                         *)
(* In SpecUDF, SpecRouter and SpecGlobals one action is one iteration of   *)
(* the worker loop (dequeue, execute, reply) for that command; the loop    *)
(* serialises them, which is what Spec models.                             *)
(***************************************************************************)
EXTENDS Integers, Sequences, FiniteSets, TLC

\* ------------------------------------------------------------------ bounds
\* Total number of commands (Close included) the callers enqueue.
MaxCmds == 4
\* Number of commands the worker executes in the SpecUDF/SpecRouter/SpecGlobals runs.
MaxOps == 4

\* Caller threads sharing one Environment handle.
Callers == {"t1", "t2", "t3"}
Ids == 1..MaxCmds

\* ------------------------------------------------------------- variables
VARIABLES
    \* the mpsc command channel
    queue,          \* commands sent and not yet received, oldest first
    txAlive,        \* the handle's Sender (input_tx) exists
    rxAlive,        \* the worker's Receiver (input_rx) exists
    nextId,         \* sequence number of the next command enqueued
    \* the oneshot response slots, one per enqueued command
    slot,           \* id -> "unused" | "pending" | "sent" | "txdropped" | "rxdropped"
    nsent,          \* id -> number of responses the worker sent on the slot
    respOf,         \* id -> id of the command whose result the slot holds (0: none)
    \* the caller threads
    cpc,            \* caller -> "idle" | "waiting" | "joining" | "closed"
    waitId,         \* caller -> id of the command it waits for (0: none)
    owner,          \* id -> caller that enqueued it ("": none)
    result,         \* id -> "none" | "Resp" | "ThreadExited"
    lastResult,     \* caller -> result of its last finished call
    closeRes,       \* result of close(): "none" | "Ok" | "ThreadExited" | "TaskExitedUnexpectedly"
    closeId,        \* id the Close command got (0: not enqueued)
    closeBehind,    \* ids that were queued when Close was enqueued
    \* the worker thread
    wpc,            \* "starting" | "recv" | "exec" | "running" | "callback" | "exited"
    cur,            \* the command being executed
    exitReason,     \* "none" | "close" | "disconnected" | "panic" | "sendfail"
    started,        \* ids in the order the worker dequeued them for execution
    executed,       \* ids in the order their operations completed against the engine
    answered,       \* ids in the order the worker sent their responses
    \* the per-environment state store (environment data slots)
    udf_map,        \* name -> callback: CLIPSEnvironmentUDFMap
    router_map,     \* name -> router: CLIPSEnvironmentRouterMap
    strings_to_drop,\* the raw names handed to the engine: CLIPSEnvironmentStringsToDrop
    cstrings,       \* every CString::into_raw so far, by pointer: its name, how often freed
    \* the native engine
    engFuncs,       \* names of the user functions the engine has defined
    engRouters,     \* name -> the callback slots the engine has installed
    engGlobals,     \* qualified defglobal name -> engine value
    \* what the worker last did, and what was observed
    nops,           \* number of commands the worker has taken
    lastOp,         \* the last command and the response sent for it
    events,         \* callbacks the engine has made in the current run
    lastCall,       \* the last user-function call: the callback run and the one registered
    activeReg,      \* name -> callback of the registration the engine accepted
    everRegistered, \* names the engine ever accepted as user functions
    routerLog,      \* router handler invocations, oldest first
    \* value conversions
    input,          \* the value handed to a conversion
    output,         \* the last conversion applied to it, and what it gave
    \* a callback in progress on the worker thread
    callback,       \* name of the user function whose callback is executing ("": none)
    udfInStore,     \* the store's slot holds the pointer to the function table
    udfOwners,      \* Boxes that own the function table right now
    cbWait,         \* id of the command the callback sent and waits for (0: none)
    \* fact and instance builders
    fact_builders,  \* template name -> native fact builder (0: null pointer)
    instance_builders, \* class name -> native instance builder (0: null pointer)
    fbError,        \* the engine's fact builder error state, read by FBError
    engFacts,       \* the facts asserted, oldest first: their templates (and slots)
    engInstances,   \* classes of the instances made, oldest first
    engLog,         \* the builder and teardown calls made to the engine, oldest first
    dropped,        \* cache entries Drop has gone through
    envState,       \* "alive" | "destroyed": the native environment
    mbLive,         \* multifield builders created and not disposed
    \* the threads of the process and their working directories
    fsOf,           \* thread -> the filesystem context (fs_struct) it uses
    cwd,            \* filesystem context -> its current working directory
    envPc,          \* Environment -> "none" | "starting" | "recv" | "exited": its worker
    lastChdir,      \* the last chdir command: its Environment, directory and result
    registered,     \* name -> the router whose add_router returned Ok
    files,          \* path -> the binary file the engine saved there
    \* a fact or an instance under construction
    building,       \* the construction the worker is in: builder, puts, how it ended
    fbValues        \* native builder -> the slot values put and not yet committed

chanVars == <<queue, txAlive, rxAlive, nextId, slot, nsent, respOf>>
callerVars == <<cpc, waitId, owner, result, lastResult, closeRes, closeId, closeBehind>>
workerVars == <<wpc, cur, exitReason, started, executed, answered>>
storeVars == <<udf_map, router_map, strings_to_drop, cstrings>>
engineVars == <<engFuncs, engRouters, engGlobals>>
obsVars == <<nops, lastOp, events, lastCall, activeReg, everRegistered, routerLog>>
convVars == <<input, output>>
bridgeVars == <<callback, udfInStore, udfOwners, cbWait>>
builderVars == <<fact_builders, instance_builders, fbError, engFacts, engInstances, engLog,
                 dropped, envState, mbLive>>
\* The threads' working directories; the routers registered; the files.
\* A construction of a fact or an instance in progress.
slotVars == <<building, fbValues>>
extVars == <<fsOf, cwd, envPc, lastChdir, registered, files, slotVars>>
envVars == <<storeVars, engineVars, obsVars, convVars, bridgeVars, builderVars, extVars>>
\* What the operations of CLIPSEnvironment leave alone in the worker's loop.
loopVars ==
    <<chanVars, callerVars, cur, started, executed, answered, convVars, bridgeVars, builderVars,
      extVars>>
vars == <<chanVars, callerVars, workerVars, envVars>>

NoCmd == [id |-> 0, kind |-> "None", nul |-> FALSE]

\* What a caller can ask for: the command variant and whether the string it
\* carries holds an interior NUL byte (CString::new(..).unwrap() panics on it).
HandleInputs ==
    { [kind |-> "Run", nul |-> FALSE],
      [kind |-> "RemoveUDF", nul |-> FALSE],
      [kind |-> "RemoveUDF", nul |-> TRUE] }

NoOp == [op |-> "none", name |-> "", res |-> "none", known |-> FALSE, valid |-> TRUE]
NoCall == [name |-> "", ran |-> "", registered |-> ""]
NoValue == [tag |-> "none", i |-> 0, s |-> ""]
NoOutput == [fn |-> "none", ok |-> TRUE, v |-> NoValue]

\* The Environments one process makes, each with a worker thread of its own,
\* and the threads of the process: the host's caller threads and the workers.
Envs == {"e1", "e2"}
Threads == {"host"} \cup Envs
\* Filesystem contexts: the one the process's threads share, and the private
\* one a thread gets from unshare(CLONE_FS).
FsContexts == {"proc"} \cup Envs
NoPut == [slot |-> "", code |-> 0, res |-> ""]
NoBuilding == [kind |-> "", name |-> "", h |-> 0, nputs |-> 0, last |-> NoPut, own |-> <<>>,
               done |-> FALSE, ret |-> "", committed |-> FALSE]
NoChdir == [env |-> "", dir |-> "", ok |-> TRUE, n |-> 0]

\* The handle, the channel, the worker and the environment after
\* Environment::new.
InitState ==
    /\ queue = <<>>
    /\ txAlive = TRUE
    /\ rxAlive = TRUE
    /\ nextId = 1
    /\ slot = [i \in Ids |-> "unused"]
    /\ nsent = [i \in Ids |-> 0]
    /\ respOf = [i \in Ids |-> 0]
    /\ cpc = [c \in Callers |-> "idle"]
    /\ waitId = [c \in Callers |-> 0]
    /\ owner = [i \in Ids |-> ""]
    /\ result = [i \in Ids |-> "none"]
    /\ lastResult = [c \in Callers |-> "none"]
    /\ closeRes = "none"
    /\ closeId = 0
    /\ closeBehind = {}
    /\ wpc = "starting"
    /\ cur = NoCmd
    /\ exitReason = "none"
    /\ started = <<>>
    /\ executed = <<>>
    /\ answered = <<>>
    /\ udf_map = <<>>
    /\ router_map = <<>>
    /\ strings_to_drop = <<>>
    /\ cstrings = <<>>
    /\ engFuncs = {}
    /\ engRouters = <<>>
    /\ engGlobals = <<>>
    /\ nops = 0
    /\ lastOp = NoOp
    /\ events = 0
    /\ lastCall = NoCall
    /\ activeReg = <<>>
    /\ everRegistered = {}
    /\ routerLog = <<>>
    /\ callback = ""
    /\ udfInStore = TRUE
    /\ udfOwners = 0
    /\ cbWait = 0
    /\ fact_builders = <<>>
    /\ instance_builders = <<>>
    /\ fbError = 0
    /\ engFacts = <<>>
    /\ engInstances = <<>>
    /\ engLog = <<>>
    /\ dropped = {}
    /\ envState = "alive"
    /\ mbLive = 0
    /\ fsOf = [t \in Threads |-> "proc"]
    /\ cwd = [f \in FsContexts |-> "/"]
    /\ envPc = [e \in Envs |-> "none"]
    /\ lastChdir = NoChdir
    /\ registered = <<>>
    /\ files = <<>>
    /\ building = NoBuilding
    /\ fbValues = <<>>

Init ==
    /\ InitState
    /\ input = NoValue
    /\ output = NoOutput

\* ---------------------------------------------------------------- channel
\* Mutant: the queued commands outlive the Receiver, their slots stay open.
DropQueued_leak(s, q) == s

\* Mutant: the queued commands are acknowledged instead of dropped.
DropQueued_ack(s, q) ==
    [i \in Ids |->
        IF \E k \in 1..Len(q) : q[k].id = i /\ q[k].kind # "Close"
        THEN "sent" ELSE s[i]]

\* Dropping the Receiver discards the queued commands, and with each its
\* oneshot Sender: the waiting caller's recv() then fails.
DropQueued(s, q) ==
    [i \in Ids |->
        IF \E k \in 1..Len(q) : q[k].id = i /\ q[k].kind # "Close"
        THEN "txdropped" ELSE s[i]]

\* ----------------------------------------------------------------- handle
\* Environment::load_from_str .. restore_globals, first half: create the
\* oneshot channel and send the command; a failed send is ThreadExited.
Handle_send(c, inp) ==
    /\ cpc[c] = "idle"
    /\ txAlive
    /\ nextId <= MaxCmds
    /\ IF rxAlive
       THEN /\ queue' = Append(queue, [id |-> nextId, kind |-> inp.kind, nul |-> inp.nul])
            /\ slot' = [slot EXCEPT ![nextId] = "pending"]
            /\ owner' = [owner EXCEPT ![nextId] = c]
            /\ nextId' = nextId + 1
            /\ cpc' = [cpc EXCEPT ![c] = "waiting"]
            /\ waitId' = [waitId EXCEPT ![c] = nextId]
            /\ UNCHANGED lastResult
       ELSE /\ lastResult' = [lastResult EXCEPT ![c] = "ThreadExited"]
            /\ UNCHANGED <<queue, slot, owner, nextId, cpc, waitId>>
    /\ UNCHANGED <<txAlive, rxAlive, nsent, respOf, result, closeRes, closeId,
                   closeBehind, workerVars, envVars>>

\* Second half: res_rx.recv(), which returns the response or, when the
\* worker dropped the slot's Sender, fails and is mapped to ThreadExited.
Handle_recv(c) ==
    /\ cpc[c] = "waiting"
    /\ slot[waitId[c]] \in {"sent", "txdropped"}
    /\ LET r == IF slot[waitId[c]] = "sent" THEN "Resp" ELSE "ThreadExited" IN
        /\ result' = [result EXCEPT ![waitId[c]] = r]
        /\ lastResult' = [lastResult EXCEPT ![c] = r]
    /\ cpc' = [cpc EXCEPT ![c] = "idle"]
    /\ waitId' = [waitId EXCEPT ![c] = 0]
    /\ UNCHANGED <<chanVars, owner, closeRes, closeId, closeBehind, workerVars, envVars>>

\* Environment::close, first half: send Close. close takes the handle by
\* value, so the borrow rules of a safe caller run it only when no other call
\* is in progress; the model lets calls overlap it, as the channel does, which
\* contains every behaviour of such callers.
close_send(c) ==
    /\ cpc[c] = "idle"
    /\ txAlive
    /\ closeRes = "none"
    /\ \A d \in Callers : cpc[d] \notin {"joining", "closed"}
    /\ nextId <= MaxCmds
    /\ IF rxAlive
       THEN /\ queue' = Append(queue, [id |-> nextId, kind |-> "Close", nul |-> FALSE])
            /\ closeId' = nextId
            /\ closeBehind' = {queue[k].id : k \in 1..Len(queue)}
            /\ nextId' = nextId + 1
            /\ cpc' = [cpc EXCEPT ![c] = "joining"]
            /\ UNCHANGED <<txAlive, closeRes>>
       ELSE /\ closeRes' = "ThreadExited"
            /\ cpc' = [cpc EXCEPT ![c] = "closed"]
            /\ txAlive' = FALSE
            /\ UNCHANGED <<queue, closeId, closeBehind, nextId>>
    /\ UNCHANGED <<rxAlive, slot, nsent, respOf, waitId, owner, result, lastResult,
                   workerVars, envVars>>

\* Environment::close, second half: join the worker thread; the handle, and
\* with it the Sender, is dropped when close returns.
close_join(c) ==
    /\ cpc[c] = "joining"
    /\ wpc = "exited"
    /\ closeRes' = IF exitReason = "panic" THEN "TaskExitedUnexpectedly" ELSE "Ok"
    /\ cpc' = [cpc EXCEPT ![c] = "closed"]
    /\ txAlive' = FALSE
    /\ UNCHANGED <<queue, rxAlive, nextId, slot, nsent, respOf, waitId, owner,
                   result, lastResult, closeId, closeBehind, workerVars, envVars>>

\* The handle is dropped without close: the channel disconnects.
drop_handle ==
    /\ txAlive
    /\ \A c \in Callers : cpc[c] \notin {"joining", "closed"}
    /\ txAlive' = FALSE
    /\ cpc' = [c \in Callers |-> IF cpc[c] = "idle" THEN "closed" ELSE cpc[c]]
    /\ UNCHANGED <<queue, rxAlive, nextId, slot, nsent, respOf, waitId, owner,
                   result, lastResult, closeRes, closeId, closeBehind, workerVars,
                   envVars>>

\* ----------------------------------------------------------------- worker
\* The worker thread ends: input_rx is dropped, whatever is queued with it.
WorkerExits(reason, s) ==
    /\ wpc' = "exited"
    /\ exitReason' = reason
    /\ cur' = NoCmd
    /\ rxAlive' = FALSE
    /\ queue' = <<>>
    /\ slot' = DropQueued(s, queue)

\* clips_environment_task before the loop: unshare(..).unwrap() and
\* CLIPSEnvironment::new().unwrap(); either may fail, and then the thread panics.
task_start ==
    /\ wpc = "starting"
    /\ \E ok \in BOOLEAN :
        IF ok
        THEN /\ wpc' = "recv"
             /\ UNCHANGED <<queue, rxAlive, slot, cur, exitReason>>
        ELSE WorkerExits("panic", slot)
    /\ UNCHANGED <<txAlive, nextId, nsent, respOf, callerVars, started, executed,
                   answered, envVars>>

\* Mutant: the newest command is taken first.
NextCommand_lifo == queue[Len(queue)]

\* Mutant: the worker receives again while a command is still executing.
AtLoopHead_busy == wpc \in {"recv", "exec"}

\* Mutant: the result goes to the slot of the command queued next.
ReplySlot_next ==
    IF queue # <<>> /\ Head(queue).kind # "Close" THEN Head(queue).id ELSE cur.id

\* The next command to take from the channel: mpsc delivers in send order.
NextCommand == Head(queue)

\* The worker calls input_rx.recv() only at the head of its loop, after the
\* arm of the previous command has run and sent its response.
AtLoopHead == wpc = "recv"

\* input_rx.recv() and the match on what it returned.
task_recv ==
    /\ AtLoopHead
    /\ IF queue # <<>>
       THEN IF NextCommand.kind = "Close"
            THEN /\ WorkerExits("close", slot)
                 /\ UNCHANGED started
            ELSE /\ cur' = NextCommand
                 /\ queue' = SelectSeq(queue, LAMBDA m : m.id # NextCommand.id)
                 /\ started' = Append(started, NextCommand.id)
                 /\ wpc' = "exec"
                 /\ UNCHANGED <<rxAlive, slot, exitReason>>
       ELSE /\ ~txAlive
            /\ WorkerExits("disconnected", slot)
            /\ UNCHANGED started
    /\ UNCHANGED <<txAlive, nextId, nsent, respOf, callerVars, executed, answered,
                   envVars>>

\* The slot on which the worker answers the command it executed.
ReplySlot == cur.id

\* Mutant: a response that nobody can receive counts as sent.
SendFails_never(id) == FALSE

\* res_tx.send(..) returns Err: the Receiver of the slot was dropped.
SendFails(id) == slot[id] = "rxdropped"

\* The arm of the match: run the operation against the environment and send
\* its result on the command's slot. A NUL byte in the command's string makes
\* CString::new(..).unwrap() panic; a failed send breaks the loop.
task_exec ==
    /\ wpc = "exec"
    /\ IF cur.nul
       THEN /\ WorkerExits("panic", [slot EXCEPT ![cur.id] = "txdropped"])
            /\ UNCHANGED <<executed, answered, nsent, respOf>>
       ELSE /\ executed' = Append(executed, cur.id)
            /\ IF SendFails(ReplySlot)
               THEN /\ WorkerExits("sendfail", slot)
                    /\ UNCHANGED <<answered, nsent, respOf>>
               ELSE /\ slot' = [slot EXCEPT ![ReplySlot] = "sent"]
                    /\ nsent' = [nsent EXCEPT ![ReplySlot] = @ + 1]
                    /\ respOf' = [respOf EXCEPT ![ReplySlot] = cur.id]
                    /\ answered' = Append(answered, cur.id)
                    /\ wpc' = "recv"
                    /\ cur' = NoCmd
                    /\ UNCHANGED <<queue, rxAlive, exitReason>>
    /\ UNCHANGED <<txAlive, nextId, callerVars, started, envVars>>

Next ==
    \/ \E c \in Callers : \E inp \in HandleInputs : Handle_send(c, inp)
    \/ \E c \in Callers : Handle_recv(c)
    \/ \E c \in Callers : close_send(c)
    \/ \E c \in Callers : close_join(c)
    \/ drop_handle
    \/ task_start
    \/ task_recv
    \/ task_exec

Spec == Init /\ [][Next]_vars

\* The Receiver of a pending response is dropped: its caller no longer
\* waits. The methods of Environment block in recv() until the worker
\* answers or ends, so none of them does this; it is the one event for which
\* the worker's send fails.
Receiver_dropped(c) ==
    /\ cpc[c] = "waiting"
    /\ slot[waitId[c]] = "pending"
    /\ slot' = [slot EXCEPT ![waitId[c]] = "rxdropped"]
    /\ result' = [result EXCEPT ![waitId[c]] = "Abandoned"]
    /\ lastResult' = [lastResult EXCEPT ![c] = "Abandoned"]
    /\ cpc' = [cpc EXCEPT ![c] = "idle"]
    /\ waitId' = [waitId EXCEPT ![c] = 0]
    /\ UNCHANGED <<queue, txAlive, rxAlive, nextId, nsent, respOf, owner, closeRes, closeId,
                   closeBehind, workerVars, envVars>>

\* The threads that hold the handle in SpecLoop.
LoopCallers == {"t1", "t2"}

NextLoop ==
    \/ \E c \in LoopCallers : \E inp \in HandleInputs : Handle_send(c, inp)
    \/ \E c \in LoopCallers : Handle_recv(c)
    \/ \E c \in LoopCallers : Receiver_dropped(c)
    \/ \E c \in LoopCallers : close_send(c)
    \/ \E c \in LoopCallers : close_join(c)
    \/ drop_handle
    \/ task_start
    \/ task_recv
    \/ task_exec

SpecLoop == Init /\ [][NextLoop]_vars

\* Threads that can run do run, and a blocked recv() or join() returns once
\* its channel or thread has something for it.
FairSpec ==
    /\ Spec
    /\ \A c \in Callers : WF_vars(Handle_recv(c))
    /\ \A c \in Callers : WF_vars(close_join(c))
    /\ WF_vars(task_start)
    /\ WF_vars(task_recv)
    /\ WF_vars(task_exec)

\* --------------------------------------------- CLIPSEnvironment: inputs
\* Events the engine raises within one run.
MaxEvents == 2

\* A name with an interior NUL byte: CString::new(name).unwrap() panics on it.
NulName == "a<NUL>b"
HasNul(n) == n = NulName

UdfNames == {"f", "g", NulName}
Callbacks == {"cb1", "cb2"}
\* <<min_args, max_args>> of a registration.
Arities == {<<0, 1>>, <<2, 1>>}

RouterNames == {"r1", "r2", NulName}
\* RouterSupport sets a router may declare.
RouterSupports == {{}, {"WRITE"}, {"READ"}, {"SIGNAL"}, {"WRITE", "READ", "SIGNAL"}}

\* HashMap::insert and HashMap::remove.
MapPut(m, k, v) == [x \in (DOMAIN m) \cup {k} |-> IF x = k THEN v ELSE m[x]]
MapDel(m, k) == [x \in (DOMAIN m) \ {k} |-> m[x]]

\* All orders in which a HashMap may yield the keys S.
Orders(S) ==
    {f \in [1..Cardinality(S) -> S] : \A j, k \in 1..Cardinality(S) : j # k => f[j] # f[k]}

\* A panic unwinds out of the worker's loop.
WorkerPanics ==
    /\ wpc' = "exited"
    /\ exitReason' = "panic"

\* --------------------------------------------- CLIPSEnvironment: signals
\* One router handler invocation, as the instrumented handler sees it.
Invocation(name, ev) ==
    [name |-> name, rid |-> router_map[name].rid, ev |-> ev,
     supports |-> router_map[name].supports]

\* Whether send_routers_signal notifies this router.
WantsSignal(r) == "SIGNAL" \in r.supports

\* CLIPSSignal's limit: None is -1, Some(n) is n.
NoLimit == -1

\* send_routers_signal: every router of the table that declares SIGNAL gets
\* the signal, in the table's iteration order.
send_routers_signal(signal, limit) ==
    \E order \in Orders({n \in DOMAIN router_map : WantsSignal(router_map[n])}) :
        routerLog' = routerLog \o [k \in 1..Len(order) |->
                                     Invocation(order[k], signal) @@ [limit |-> limit]]

\* CLIPSEnvironment::run up to the call of clips_sys::Run.
Cmd_Run_begin ==
    /\ wpc = "recv"
    /\ nops < MaxOps
    /\ nops' = nops + 1
    /\ send_routers_signal("RunStarted", NoLimit)
    /\ wpc' = "running"
    /\ events' = 0
    /\ lastOp' = [op |-> "run", name |-> "", res |-> "none", known |-> FALSE, valid |-> TRUE,
                  limit |-> NoLimit, from |-> Len(routerLog)]
    /\ UNCHANGED <<loopVars, exitReason, storeVars, engineVars, lastCall, activeReg,
                   everRegistered>>

\* clips_sys::Run returned: the rest of CLIPSEnvironment::run, and the reply.
Cmd_Run_end ==
    /\ wpc = "running"
    /\ lastOp.op = "run"
    /\ send_routers_signal("RunFinished", NoLimit)
    /\ lastOp' = [lastOp EXCEPT !.res = "Ok"]
    /\ wpc' = "recv"
    /\ UNCHANGED <<loopVars, exitReason, storeVars, engineVars, nops, events, lastCall,
                   activeReg, everRegistered>>

\* ------------------------------------------------- CLIPSEnvironment: UDFs
\* The table after add_udf's insert.
UdfTableAfterAdd(name, function) == MapPut(udf_map, name, function)

\* CString::new(name).unwrap().into_raw(): the string leaves Rust's ownership;
\* its pointer is its place in the ledger of such strings.
into_raw(name, kind) == Append(cstrings, [name |-> name, kind |-> kind, frees |-> 0])

\* The engine's AddUDF: the arity check, then the name check.
EngineAddUDF(name, min, max) ==
    IF min > max THEN "AUE_MIN_EXCEEDS_MAX_ERROR"
    ELSE IF name \in engFuncs THEN "AUE_FUNCTION_NAME_IN_USE_ERROR"
    ELSE "AUE_NO_ERROR"

\* add_udf's match on the engine's code.
AddUDFResult(code) ==
    CASE code = "AUE_NO_ERROR" -> "Ok"
      [] code = "AUE_MIN_EXCEEDS_MAX_ERROR" -> "MinArgumentsExceedsMax"
      [] code = "AUE_FUNCTION_NAME_IN_USE_ERROR" -> "NameInUse"

\* CLIPSEnvironment::add_udf.
add_udf(name, min, max, function) ==
    /\ udf_map' = UdfTableAfterAdd(name, function)
    /\ IF HasNul(name)
       THEN /\ WorkerPanics
            /\ lastOp' = [op |-> "add_udf", name |-> name, res |-> "ThreadExited",
                          known |-> name \in engFuncs, valid |-> min <= max]
            /\ UNCHANGED <<strings_to_drop, cstrings, engFuncs, activeReg>>
       ELSE /\ cstrings' = into_raw(name, "udf")
            /\ strings_to_drop' = Append(strings_to_drop, Len(cstrings'))
            /\ LET code == EngineAddUDF(name, min, max) IN
                /\ engFuncs' = IF code = "AUE_NO_ERROR" THEN engFuncs \cup {name} ELSE engFuncs
                /\ activeReg' = IF code = "AUE_NO_ERROR"
                                THEN MapPut(activeReg, name, function) ELSE activeReg
                /\ lastOp' = [op |-> "add_udf", name |-> name, res |-> AddUDFResult(code),
                              known |-> name \in engFuncs, valid |-> min <= max]
            /\ UNCHANGED <<wpc, exitReason>>

\* The worker's AddUDF arm.
Cmd_AddUDF(name, min, max, function) ==
    /\ wpc = "recv"
    /\ nops < MaxOps
    /\ nops' = nops + 1
    /\ add_udf(name, min, max, function)
    /\ everRegistered' = (DOMAIN activeReg') \cup everRegistered
    /\ UNCHANGED <<loopVars, router_map, engRouters, engGlobals, events, lastCall,
                   routerLog>>

\* Mutant: remove_udf empties the table.
UdfTableAfterRemove_clear(name) == <<>>

\* The table after remove_udf's remove.
UdfTableAfterRemove(name) == MapDel(udf_map, name)

\* CLIPSEnvironment::remove_udf; the engine's RemoveUDF tells whether it had
\* the function.
remove_udf(name) ==
    /\ udf_map' = UdfTableAfterRemove(name)
    /\ IF HasNul(name)
       THEN /\ WorkerPanics
            /\ lastOp' = [op |-> "remove_udf", name |-> name, res |-> "ThreadExited",
                          known |-> name \in engFuncs, valid |-> TRUE]
            /\ UNCHANGED <<engFuncs, activeReg>>
       ELSE /\ engFuncs' = engFuncs \ {name}
            /\ activeReg' = MapDel(activeReg, name)
            /\ lastOp' = [op |-> "remove_udf", name |-> name,
                          res |-> IF name \in engFuncs THEN "true" ELSE "false",
                          known |-> name \in engFuncs, valid |-> TRUE]
            /\ UNCHANGED <<wpc, exitReason>>

\* The worker's RemoveUDF arm.
Cmd_RemoveUDF(name) ==
    /\ wpc = "recv"
    /\ nops < MaxOps
    /\ nops' = nops + 1
    /\ remove_udf(name)
    /\ UNCHANGED <<loopVars, router_map, strings_to_drop, cstrings, engRouters, engGlobals,
                   events, lastCall, everRegistered, routerLog>>

\* call_udf: the engine, inside Run, calls the one native entry point with the
\* registration name as context; the callback is looked up by that name.
call_udf(name) ==
    /\ wpc = "running"
    /\ events < MaxEvents
    /\ name \in engFuncs
    /\ events' = events + 1
    /\ IF name \in DOMAIN udf_map
       THEN /\ lastCall' = [name |-> name, ran |-> udf_map[name],
                            registered |-> activeReg[name]]
            /\ UNCHANGED <<wpc, exitReason>>
       ELSE /\ WorkerPanics
            /\ UNCHANGED lastCall
    /\ UNCHANGED <<loopVars, storeVars, engineVars, nops, lastOp, activeReg, everRegistered,
                   routerLog>>

NextUDF ==
    \/ task_start
    \/ \E name \in UdfNames : \E ar \in Arities : \E function \in Callbacks :
        Cmd_AddUDF(name, ar[1], ar[2], function)
    \/ \E name \in UdfNames : Cmd_RemoveUDF(name)
    \/ Cmd_Run_begin
    \/ \E name \in UdfNames : call_udf(name)
    \/ Cmd_Run_end

SpecUDF == Init /\ [][NextUDF]_vars

\* ---------------------------------------------- CLIPSEnvironment: routers
\* The callback slots add_router hands to the engine's AddRouter for a router
\* declaring these capabilities.
InstalledSlots(supports) ==
    [query |-> TRUE,
     write |-> "WRITE" \in supports,
     read |-> "READ" \in supports,
     unread |-> "READ" \in supports,
     exit |-> TRUE]

\* The engine's AddRouter: false when a router of that name is installed.
EngineAddRouter(name) == name \notin DOMAIN engRouters

\* CLIPSEnvironment::add_router.
add_router(name, router) ==
    /\ router_map' = MapPut(router_map, name, router)
    /\ IF HasNul(name)
       THEN /\ WorkerPanics
            /\ lastOp' = [op |-> "add_router", name |-> name, res |-> "ThreadExited",
                          known |-> name \in DOMAIN engRouters, valid |-> TRUE]
            /\ UNCHANGED <<strings_to_drop, cstrings, engRouters>>
       ELSE /\ cstrings' = into_raw(name, "router")
            /\ strings_to_drop' = Append(strings_to_drop, Len(cstrings'))
            /\ LET res == EngineAddRouter(name) IN
                /\ engRouters' = IF res
                                 THEN MapPut(engRouters, name, InstalledSlots(router.supports))
                                 ELSE engRouters
                /\ lastOp' = [op |-> "add_router", name |-> name,
                              res |-> IF res THEN "Ok" ELSE "AddRouter",
                              known |-> name \in DOMAIN engRouters, valid |-> TRUE]
            /\ UNCHANGED <<wpc, exitReason>>

\* The worker's AddRouter arm; the router object is told apart by the number
\* of the command that brought it.
Cmd_AddRouter(name, supports) ==
    /\ wpc = "recv"
    /\ nops < MaxOps
    /\ nops' = nops + 1
    /\ add_router(name, [rid |-> nops + 1, supports |-> supports])
    /\ UNCHANGED <<loopVars, udf_map, engFuncs, engGlobals, events, lastCall, activeReg,
                   everRegistered, routerLog>>

\* The engine, inside Run, has I/O on some logical name for the installed
\* router `name`, whose slot `ev` is not null: it calls router_query and, when
\* the router claims the logical name, the slot. Both look the router up in the
\* table by name.
EngineRouterIO(name, ev) ==
    /\ wpc = "running"
    /\ events < MaxEvents
    /\ name \in DOMAIN engRouters
    /\ engRouters[name][ev]
    /\ events' = events + 1
    /\ IF name \in DOMAIN router_map
       THEN /\ \E claims \in BOOLEAN :
                routerLog' = routerLog \o <<Invocation(name, "query")>>
                                \o (IF claims THEN <<Invocation(name, ev)>> ELSE <<>>)
            /\ UNCHANGED <<wpc, exitReason>>
       ELSE /\ WorkerPanics
            /\ UNCHANGED routerLog
    /\ UNCHANGED <<loopVars, storeVars, engineVars, nops, lastOp, lastCall, activeReg,
                   everRegistered>>

router_write(name) == EngineRouterIO(name, "write")
router_read(name) == EngineRouterIO(name, "read")
router_unread(name) == EngineRouterIO(name, "unread")

NextRouter ==
    \/ task_start
    \/ \E name \in RouterNames : \E supports \in RouterSupports : Cmd_AddRouter(name, supports)
    \/ Cmd_Run_begin
    \/ \E name \in RouterNames : router_write(name)
    \/ \E name \in RouterNames : router_read(name)
    \/ \E name \in RouterNames : router_unread(name)
    \/ Cmd_Run_end

SpecRouter == Init /\ [][NextRouter]_vars

\* Limits a bounded run is asked with.
Limits == {0, 2}

\* CLIPSEnvironment::run_limit up to the call of clips_sys::Run.
Cmd_RunLimit_begin(limit) ==
    /\ wpc = "recv"
    /\ nops < MaxOps
    /\ nops' = nops + 1
    /\ send_routers_signal("RunStarted", limit)
    /\ wpc' = "running"
    /\ events' = 0
    /\ lastOp' = [op |-> "run_limit", name |-> "", res |-> "none", known |-> FALSE,
                  valid |-> TRUE, limit |-> limit, from |-> Len(routerLog)]
    /\ UNCHANGED <<loopVars, exitReason, storeVars, engineVars, lastCall, activeReg,
                   everRegistered>>

\* clips_sys::Run returned: the rest of CLIPSEnvironment::run_limit, and the
\* reply.
Cmd_RunLimit_end ==
    /\ wpc = "running"
    /\ lastOp.op = "run_limit"
    /\ send_routers_signal("RunFinished", lastOp.limit)
    /\ lastOp' = [lastOp EXCEPT !.res = "Ok"]
    /\ wpc' = "recv"
    /\ UNCHANGED <<loopVars, exitReason, storeVars, engineVars, nops, events, lastCall,
                   activeReg, everRegistered>>

\* The worker's AddRouter arm, and the host keeping the router when the
\* call returned Ok.
Cmd_AddRouter_host(name, supports) ==
    /\ wpc = "recv"
    /\ nops < MaxOps
    /\ nops' = nops + 1
    /\ LET router == [rid |-> nops + 1, supports |-> supports] IN
        /\ add_router(name, router)
        /\ registered' = IF ~HasNul(name) /\ EngineAddRouter(name)
                         THEN MapPut(registered, name, router)
                         ELSE registered
    /\ UNCHANGED <<chanVars, callerVars, cur, started, executed, answered, convVars, bridgeVars,
                   builderVars, fsOf, cwd, envPc, lastChdir, files, slotVars, udf_map, engFuncs,
                   engGlobals,
                   events, lastCall, activeReg, everRegistered, routerLog>>

NextSignal ==
    \/ task_start
    \/ \E name \in RouterNames : \E supports \in RouterSupports :
        Cmd_AddRouter_host(name, supports)
    \/ Cmd_Run_begin
    \/ \E limit \in Limits : Cmd_RunLimit_begin(limit)
    \/ \E name \in RouterNames : router_write(name)
    \/ Cmd_Run_end
    \/ Cmd_RunLimit_end

SpecSignal == Init /\ [][NextSignal]_vars

\* ---------------------------------------------- CLIPSEnvironment: globals
\* CLIPSValue, the host side's value.
IntV(i) == [tag |-> "Int", i |-> i, s |-> ""]
StringV(s) == [tag |-> "String", i |-> 0, s |-> s]
SymbolV(s) == [tag |-> "Symbol", i |-> 0, s |-> s]
BoolV(b) == [tag |-> "Bool", i |-> IF b THEN 1 ELSE 0, s |-> ""]

\* The engine's value: a type tag and the contents.
EngineInteger(i) == [type |-> "INTEGER_TYPE", i |-> i, s |-> ""]
EngineLexeme(type, s) == [type |-> type, i |-> 0, s |-> s]

EngineFloat(f) == [type |-> "FLOAT_TYPE", i |-> 0, s |-> f]
EngineMultifield(items) == [type |-> "MULTIFIELD_TYPE", i |-> 0, s |-> "", items |-> items]

\* Concatenation of a sequence of sequences.
RECURSIVE Flatten(_)
Flatten(ss) == IF ss = <<>> THEN <<>> ELSE Head(ss) \o Flatten(Tail(ss))

\* CLIPSFrom<CLIPSValue>: the engine value built for a host value. An engine
\* multifield is flat: MBAppend of a multifield appends its members.
RECURSIVE ToEngine(_)
ToEngine(v) ==
    CASE v.tag = "Int" -> EngineInteger(v.i)
      [] v.tag = "String" -> EngineLexeme("STRING_TYPE", v.s)
      [] v.tag = "Symbol" -> EngineLexeme("SYMBOL_TYPE", v.s)
      [] v.tag = "Bool" -> EngineLexeme("SYMBOL_TYPE", IF v.i = 1 THEN "TRUE" ELSE "FALSE")
      [] v.tag = "Float" -> EngineFloat(v.s)
      [] v.tag = "Multifield" ->
            LET members == [k \in 1..Len(v.items) |-> ToEngine(v.items[k])] IN
            EngineMultifield(Flatten([k \in 1..Len(members) |->
                IF members[k].type = "MULTIFIELD_TYPE" THEN members[k].items
                ELSE <<members[k]>>]))

\* CString::new(..).unwrap() inside the conversion of a String or a Symbol,
\* at any level of a multifield.
RECURSIVE ConvertPanics(_)
ConvertPanics(v) ==
    \/ v.tag \in {"String", "Symbol"} /\ HasNul(v.s)
    \/ v.tag = "Multifield" /\ \E k \in 1..Len(v.items) : ConvertPanics(v.items[k])

\* <<module, name>> of a defglobal; restore_globals looks "module::name" up.
QNames == {<<"MAIN", "x">>, <<"MAIN", "y">>, <<"M", "x">>, <<"MAIN", NulName>>}
\* Names a construct of the engine can have.
EngineQNames == {q \in QNames : ~HasNul(q[2])}
\* Values a snapshot handed to restore_globals holds.
GlobalValues == {IntV(1), IntV(2), StringV(NulName)}
\* Values the loaded constructs give their globals.
LoadedValues == {EngineInteger(1), EngineInteger(2)}

\* Entries of one snapshot.
MaxEntries == 2

\* A CLIPSGlobalsHierarchy: a value for each qualified name it holds.
Snapshots ==
    UNION {[S -> GlobalValues] : S \in {T \in SUBSET QNames : Cardinality(T) \in 1..MaxEntries}}

\* The orders in which the nested HashMaps yield the entries: the modules in
\* any order, the names of one module together and in any order.
IterationOrders(S) ==
    {o \in Orders(S) :
        \A j, k, l \in DOMAIN o : (j < k /\ k < l /\ o[j][1] = o[l][1]) => o[k][1] = o[j][1]}

\* The worker's LoadFromStr arm for a text holding one defglobal construct.
Cmd_LoadDefglobal(q, value) ==
    /\ wpc = "recv"
    /\ nops < MaxOps
    /\ nops' = nops + 1
    /\ engGlobals' = MapPut(engGlobals, q, value)
    /\ lastOp' = [op |-> "load_from_str", name |-> q[2], res |-> "Ok",
                  known |-> q \in DOMAIN engGlobals, valid |-> TRUE]
    /\ UNCHANGED <<loopVars, wpc, exitReason, storeVars, engFuncs, engRouters, events, lastCall,
                   activeReg, everRegistered, routerLog>>

\* The loop of restore_globals from the k-th entry on, over the engine's
\* globals `eng`: the outcome, the globals, and the entry it stopped at.
RECURSIVE RestoreFrom(_, _, _, _)
RestoreFrom(globals, order, k, eng) ==
    IF k > Len(order)
    THEN [res |-> "Ok", eng |-> eng, at |-> k]
    ELSE LET q == order[k] IN
         IF ConvertPanics(globals[q]) \/ HasNul(q[1]) \/ HasNul(q[2])
         THEN [res |-> "panic", eng |-> eng, at |-> k]
         ELSE IF q \notin DOMAIN eng
         THEN [res |-> "DefglobalNotFound", eng |-> eng, at |-> k]
         ELSE RestoreFrom(globals, order, k + 1, [eng EXCEPT ![q] = ToEngine(globals[q])])

\* Mutant: a restore that fails leaves the engine's globals as they were.
restore_globals_atomic(globals, order) ==
    LET r == RestoreFrom(globals, order, 1, engGlobals) IN
    IF r.res = "Ok" THEN r ELSE [r EXCEPT !.eng = engGlobals]

\* CLIPSEnvironment::restore_globals.
restore_globals(globals, order) == RestoreFrom(globals, order, 1, engGlobals)

\* The worker's RestoreGlobals arm.
Cmd_RestoreGlobals(globals, order) ==
    /\ wpc = "recv"
    /\ nops < MaxOps
    /\ nops' = nops + 1
    /\ LET r == restore_globals(globals, order) IN
        /\ engGlobals' = r.eng
        /\ IF r.res = "panic"
           THEN WorkerPanics
           ELSE UNCHANGED <<wpc, exitReason>>
        /\ lastOp' = [op |-> "restore_globals", name |-> "",
                      res |-> IF r.res = "panic" THEN "ThreadExited" ELSE r.res,
                      known |-> FALSE, valid |-> TRUE,
                      globals |-> globals, order |-> order, before |-> engGlobals]
    /\ UNCHANGED <<loopVars, storeVars, engFuncs, engRouters, events, lastCall,
                   activeReg, everRegistered, routerLog>>

NextGlobals ==
    \/ task_start
    \/ \E q \in EngineQNames : \E value \in LoadedValues : Cmd_LoadDefglobal(q, value)
    \/ \E globals \in Snapshots : \E order \in IterationOrders(DOMAIN globals) :
        Cmd_RestoreGlobals(globals, order)

SpecGlobals == Init /\ [][NextGlobals]_vars

\* ------------------------------------- CLIPSEnvironment: facts, instances
\* FactBuilderError and InstanceBuilderError of the engine's headers.
FBE_NO_ERROR == 0
FBE_NULL_POINTER_ERROR == 1
FBE_DEFTEMPLATE_NOT_FOUND_ERROR == 2
FBE_COULD_NOT_ASSERT_ERROR == 4
FBE_RULE_NETWORK_ERROR == 5
IBE_NO_ERROR == 0
IBE_NULL_POINTER_ERROR == 1
IBE_COULD_NOT_CREATE_ERROR == 3
IBE_RULE_NETWORK_ERROR == 4

\* Names the commands give: "t" is a deftemplate and a defclass of the
\* engine, "u" is neither.
DefinitionNames == {"t", "u", NulName}
EngineDefinitions == {"t"}
\* What into_fact_or_instance does with the builder: puts no slot, puts
\* slots the engine accepts, or puts one the engine refuses.
SlotPuts == {"none", "ok", "bad"}
\* The instance names make_instance is given: none, a name, one with a NUL.
InstanceNames == {"", "i", NulName}
\* What the engine's FBAssert / IBMake reports for a builder that is not null.
AssertOutcomes == {FBE_NO_ERROR, FBE_COULD_NOT_ASSERT_ERROR, FBE_RULE_NETWORK_ERROR}
MakeOutcomes == {IBE_NO_ERROR, IBE_COULD_NOT_CREATE_ERROR, IBE_RULE_NETWORK_ERROR}

\* The native builders the engine has created so far.
BuildersCreated == SelectSeq(engLog, LAMBDA e : e.call \in {"CreateFactBuilder",
                                                            "CreateInstanceBuilder"} /\ e.h # 0)
\* The engine's CreateFactBuilder / CreateInstanceBuilder: a new builder, or
\* the null pointer when it has no such definition.
EngineCreateBuilder(name) ==
    IF name \in EngineDefinitions THEN Len(BuildersCreated) + 1 ELSE 0

EngineCall(call, name, h) == [call |-> call, name |-> name, h |-> h]

\* Mutant: the cache is never hit.
IsCached_never(cache, name) == FALSE

\* self.fact_builders.get(template_name) is Some.
IsCached(cache, name) == name \in DOMAIN cache

\* FactBuilderData::assert's match on FBError.
AssertError(code) ==
    CASE code = FBE_NULL_POINTER_ERROR -> "unreachable"
      [] code = FBE_COULD_NOT_ASSERT_ERROR -> "UnableToAssertFact"
      [] code = FBE_RULE_NETWORK_ERROR -> "RuleNetwork"
      [] OTHER -> "unreachable"

\* InstanceBuilderData::make's match, on FBError too.
MakeError(code) ==
    CASE code = IBE_NULL_POINTER_ERROR -> "unreachable"
      [] code = IBE_COULD_NOT_CREATE_ERROR -> "UnableToMakeInstance"
      [] code = IBE_RULE_NETWORK_ERROR -> "RuleNetwork"
      [] OTHER -> "unreachable"

\* The response for an outcome: a panic (unwrap, unreachable!) ends the
\* worker and the caller gets ThreadExited.
Response(res) == IF res \in {"panic", "unwrap", "unreachable"} THEN "ThreadExited" ELSE res

\* CLIPSEnvironment::assert_fact for data that names `template`, puts slots
\* as `puts` says, and for which the engine's FBAssert reports `outcome`.
assert_fact(template, puts, outcome) ==
    LET cached == IsCached(fact_builders, template)
        created == EngineCreateBuilder(template)
        fb == IF cached THEN fact_builders[template] ELSE created
        createLog == IF cached THEN <<>>
                     ELSE <<EngineCall("CreateFactBuilder", template, created)>>
        createError == IF cached THEN fbError
                       ELSE IF created # 0 THEN FBE_NO_ERROR
                       ELSE FBE_DEFTEMPLATE_NOT_FOUND_ERROR
        cache == IF cached THEN fact_builders ELSE MapPut(fact_builders, template, created)
        report == IF fb = 0 THEN createError ELSE outcome
        res == IF ~cached /\ HasNul(template) THEN "panic"
               ELSE IF puts # "none" /\ fb = 0 THEN "unreachable"
               ELSE IF puts = "bad" THEN "SlotNotFound"
               ELSE IF fb # 0 /\ outcome = FBE_NO_ERROR THEN "Ok"
               ELSE AssertError(report)
        asserting == res \notin {"panic", "SlotNotFound"} /\ ~(puts # "none" /\ fb = 0)
    IN
    /\ fact_builders' = IF res = "panic" THEN fact_builders ELSE cache
    /\ fbError' = IF res = "panic" THEN fbError
                  ELSE IF asserting THEN report ELSE createError
    /\ engLog' = IF res = "panic" THEN engLog
                 ELSE engLog \o createLog \o
                        (IF asserting THEN <<EngineCall("FBAssert", template, fb)>> ELSE <<>>)
    /\ engFacts' = IF res = "Ok" THEN Append(engFacts, template) ELSE engFacts
    /\ lastOp' = [op |-> "assert_fact", name |-> template, res |-> Response(res),
                  known |-> cached, valid |-> ~HasNul(template), h |-> fb,
                  reported |-> IF asserting /\ fb # 0 THEN outcome ELSE 0]
    /\ IF Response(res) = "ThreadExited" THEN WorkerPanics ELSE UNCHANGED <<wpc, exitReason>>
    /\ UNCHANGED <<instance_builders, engInstances>>

\* CLIPSEnvironment::make_instance, likewise; IBMake sets the instance
\* builder's error state, which nothing reads: make matches on FBError. The
\* instance name, when there is one, is made a C string before IBMake.
make_instance(class, instance_name, puts, outcome) ==
    LET cached == IsCached(instance_builders, class)
        created == EngineCreateBuilder(class)
        ib == IF cached THEN instance_builders[class] ELSE created
        createLog == IF cached THEN <<>>
                     ELSE <<EngineCall("CreateInstanceBuilder", class, created)>>
        cache == IF cached THEN instance_builders
                 ELSE MapPut(instance_builders, class, created)
        res == IF ~cached /\ HasNul(class) THEN "panic"
               ELSE IF puts # "none" /\ ib = 0 THEN "unreachable"
               ELSE IF puts = "bad" THEN "SlotNotFound"
               ELSE IF HasNul(instance_name) THEN "unwrap"
               ELSE IF ib # 0 /\ outcome = IBE_NO_ERROR THEN "Ok"
               ELSE MakeError(fbError)
        making == res \notin {"panic", "SlotNotFound", "unwrap"} /\ ~(puts # "none" /\ ib = 0)
    IN
    /\ instance_builders' = IF res = "panic" THEN instance_builders ELSE cache
    /\ engLog' = IF res = "panic" THEN engLog
                 ELSE engLog \o createLog \o
                        (IF making THEN <<EngineCall("IBMake", class, ib)>> ELSE <<>>)
    /\ engInstances' = IF res = "Ok" THEN Append(engInstances, class) ELSE engInstances
    /\ lastOp' = [op |-> "make_instance", name |-> class, res |-> Response(res),
                  known |-> cached, valid |-> ~HasNul(class) /\ ~HasNul(instance_name),
                  h |-> ib,
                  reported |-> IF making /\ ib # 0 THEN outcome ELSE 0]
    /\ IF Response(res) = "ThreadExited" THEN WorkerPanics ELSE UNCHANGED <<wpc, exitReason>>
    /\ UNCHANGED <<fact_builders, fbError, engFacts>>

\* The worker's AssertFact arm.
Cmd_AssertFact(template, puts, outcome) ==
    /\ wpc = "recv"
    /\ nops < MaxOps
    /\ nops' = nops + 1
    /\ assert_fact(template, puts, outcome)
    /\ UNCHANGED <<chanVars, callerVars, cur, started, executed, answered, convVars, bridgeVars,
                   storeVars, engineVars, events, lastCall, activeReg, everRegistered,
                   routerLog, dropped, envState, mbLive, extVars>>

\* The worker's MakeInstance arm.
Cmd_MakeInstance(class, instance_name, puts, outcome) ==
    /\ wpc = "recv"
    /\ nops < MaxOps
    /\ nops' = nops + 1
    /\ make_instance(class, instance_name, puts, outcome)
    /\ UNCHANGED <<chanVars, callerVars, cur, started, executed, answered, convVars, bridgeVars,
                   storeVars, engineVars, events, lastCall, activeReg, everRegistered,
                   routerLog, dropped, envState, mbLive, extVars>>

\* The worker's Close arm: the loop is left.
Cmd_Close ==
    /\ wpc = "recv"
    /\ wpc' = "exited"
    /\ exitReason' = "close"
    /\ UNCHANGED <<loopVars, storeVars, engineVars, obsVars>>

\* Mutant: the environment is released only when the loop ends on Close.
EnvironmentDrops_onClose == wpc = "exited" /\ exitReason = "close"

\* The worker thread is over and owns a CLIPSEnvironment to drop: it left
\* the loop, or a command panicked and the stack unwinds; when
\* CLIPSEnvironment::new failed there is none.
EnvironmentDrops ==
    wpc = "exited" /\ ~(exitReason = "panic" /\ lastOp = NoOp /\ started = <<>>)

\* Mutant: the loops over the caches are not waited for.
AllDisposed_skip(cache, kind) == TRUE

\* A loop of Drop over one of the caches has visited every entry.
AllDisposed(cache, kind) == \A n \in DOMAIN cache : <<kind, n>> \in dropped

\* Drop's first loop, one turn: IBDispose of a cached instance builder.
Drop_IBDispose(class) ==
    /\ EnvironmentDrops
    /\ envState = "alive"
    /\ class \in DOMAIN instance_builders
    /\ <<"instance", class>> \notin dropped
    /\ dropped' = dropped \cup {<<"instance", class>>}
    /\ engLog' = Append(engLog, EngineCall("IBDispose", class, instance_builders[class]))
    /\ UNCHANGED <<chanVars, callerVars, workerVars, storeVars, engineVars, obsVars, convVars,
                   bridgeVars, fact_builders, instance_builders, fbError, engFacts,
                   engInstances, envState, mbLive, extVars>>

\* Drop's second loop, one turn: FBDispose of a cached fact builder.
Drop_FBDispose(template) ==
    /\ EnvironmentDrops
    /\ envState = "alive"
    /\ AllDisposed(instance_builders, "instance")
    /\ template \in DOMAIN fact_builders
    /\ <<"fact", template>> \notin dropped
    /\ dropped' = dropped \cup {<<"fact", template>>}
    /\ engLog' = Append(engLog, EngineCall("FBDispose", template, fact_builders[template]))
    /\ UNCHANGED <<chanVars, callerVars, workerVars, storeVars, engineVars, obsVars, convVars,
                   bridgeVars, fact_builders, instance_builders, fbError, engFacts,
                   engInstances, envState, mbLive, extVars>>

\* Mutant: the hook drops the vector and not the strings.
cleanup_strings_to_drop_leak(heap, arena) == heap

\* cleanup_strings_to_drop: CString::from_raw and drop, for every pointer
\* drained from the arena.
cleanup_strings_to_drop(heap, arena) ==
    [p \in DOMAIN heap |->
        [heap[p] EXCEPT !.frees = @ + Cardinality({j \in DOMAIN arena : arena[j] = p})]]

\* The hooks given to AllocateEnvironmentData.
CleanupHooks == {"cleanup_udf_map", "cleanup_router_map", "cleanup_strings_to_drop"}

\* The end of Drop: DestroyEnvironment, in which the engine calls the cleanup
\* hooks, in an order of its own; they release the two tables and the strings.
Drop_DestroyEnvironment ==
    /\ EnvironmentDrops
    /\ envState = "alive"
    /\ AllDisposed(instance_builders, "instance")
    /\ AllDisposed(fact_builders, "fact")
    /\ \E order \in Orders(CleanupHooks) :
        engLog' = engLog \o <<EngineCall("DestroyEnvironment", "", 0)>>
                    \o [k \in 1..Len(order) |-> EngineCall(order[k], "", 0)]
    /\ udf_map' = <<>>
    /\ router_map' = <<>>
    /\ cstrings' = cleanup_strings_to_drop(cstrings, strings_to_drop)
    /\ strings_to_drop' = <<>>
    /\ udfInStore' = FALSE
    /\ envState' = "destroyed"
    /\ UNCHANGED <<chanVars, callerVars, workerVars, engineVars, obsVars, convVars,
                   callback, udfOwners, cbWait, fact_builders, instance_builders, fbError,
                   engFacts, engInstances, dropped, mbLive, extVars>>

NextBuilders ==
    \/ task_start
    \/ \E template \in DefinitionNames : \E puts \in SlotPuts : \E outcome \in AssertOutcomes :
        Cmd_AssertFact(template, puts, outcome)
    \/ \E class \in DefinitionNames : \E instance_name \in InstanceNames :
        \E puts \in SlotPuts : \E outcome \in MakeOutcomes :
            Cmd_MakeInstance(class, instance_name, puts, outcome)
    \/ Cmd_Close
    \/ \E class \in DefinitionNames : Drop_IBDispose(class)
    \/ \E template \in DefinitionNames : Drop_FBDispose(template)
    \/ Drop_DestroyEnvironment

SpecBuilders == Init /\ [][NextBuilders]_vars

\* ------------------------------------------- CLIPSEnvironment: persistence
\* Paths of the binary files; the last one holds a NUL byte.
Paths == {"f1", "f2", NulName}

\* What the engine's BinarySave*/BinaryLoad* return for a failure.
EngineFailure == -1

\* The engine's BinarySaveFacts / BinarySaveInstances: the number of items
\* written, or -1 when the file cannot be written.
EngineBinarySave(items, writable) == IF writable THEN Len(items) ELSE EngineFailure

\* The engine's BinaryLoadFacts / BinaryLoadInstances: the number of items
\* read, or -1 when there is no such file of that kind.
EngineBinaryLoad(kind, path) ==
    IF path \in DOMAIN files /\ files[path].kind = kind
    THEN Len(files[path].items) ELSE EngineFailure

\* The error each method returns when the engine returned -1.
PersistError(op) ==
    CASE op = "binary_save_facts" -> "UnableToSaveFacts"
      [] op = "binary_load_facts" -> "UnableToSaveFacts"
      [] op = "binary_save_instances" -> "UnableToSaveInstances"
      [] op = "binary_load_instances" -> "UnableToSaveInstances"

\* The reply of a persistence method for the engine's return value: a panic
\* of CString::new(..).unwrap() when the path holds a NUL byte.
PersistReply(op, path, res) ==
    /\ nops' = nops + 1
    /\ lastOp' = [op |-> op, name |-> path, known |-> path \in DOMAIN files, valid |-> TRUE,
                  res |-> IF HasNul(path) THEN "ThreadExited"
                          ELSE IF res = EngineFailure THEN PersistError(op) ELSE "Ok",
                  count |-> IF HasNul(path) \/ res = EngineFailure THEN 0 ELSE res,
                  engine |-> IF HasNul(path) THEN 0 ELSE res]
    /\ IF HasNul(path) THEN WorkerPanics ELSE UNCHANGED <<wpc, exitReason>>

\* The worker's BinarySaveFacts and BinarySaveInstances arms.
Cmd_BinarySave(kind, path, writable) ==
    /\ wpc = "recv"
    /\ nops < MaxOps
    /\ LET items == IF kind = "facts" THEN engFacts ELSE engInstances
           res == EngineBinarySave(items, writable)
       IN
        /\ files' = IF HasNul(path) \/ res = EngineFailure THEN files
                    ELSE MapPut(files, path, [kind |-> kind, items |-> items])
        /\ PersistReply(IF kind = "facts" THEN "binary_save_facts" ELSE "binary_save_instances",
                        path, res)
    /\ UNCHANGED <<chanVars, callerVars, cur, started, executed, answered, convVars, bridgeVars,
                   builderVars, fsOf, cwd, envPc, lastChdir, registered, slotVars, storeVars, engineVars,
                   events, lastCall, activeReg, everRegistered, routerLog>>

\* The worker's BinaryLoadFacts and BinaryLoadInstances arms.
Cmd_BinaryLoad(kind, path) ==
    /\ wpc = "recv"
    /\ nops < MaxOps
    /\ LET res == EngineBinaryLoad(kind, path)
           loaded == IF HasNul(path) \/ res = EngineFailure THEN <<>> ELSE files[path].items
       IN
        /\ engFacts' = IF kind = "facts" THEN engFacts \o loaded ELSE engFacts
        /\ engInstances' = IF kind = "instances" THEN engInstances \o loaded ELSE engInstances
        /\ PersistReply(IF kind = "facts" THEN "binary_load_facts" ELSE "binary_load_instances",
                        path, res)
    /\ UNCHANGED <<chanVars, callerVars, cur, started, executed, answered, convVars, bridgeVars,
                   fact_builders, instance_builders, fbError, engLog, dropped, envState, mbLive,
                   extVars, storeVars, engineVars, events, lastCall, activeReg, everRegistered,
                   routerLog>>

NextPersist ==
    \/ task_start
    \/ Cmd_AssertFact("t", "ok", FBE_NO_ERROR)
    \/ Cmd_MakeInstance("t", "i", "ok", IBE_NO_ERROR)
    \/ \E kind \in {"facts", "instances"} : \E path \in Paths : \E writable \in BOOLEAN :
        Cmd_BinarySave(kind, path, writable)
    \/ \E kind \in {"facts", "instances"} : \E path \in Paths : Cmd_BinaryLoad(kind, path)

SpecPersist == Init /\ [][NextPersist]_vars

\* ------------------------------------------- builders, slot by slot
\* PutSlotError of the engine's headers.
PSE_NO_ERROR == 0
PSE_NULL_POINTER_ERROR == 1
PSE_INVALID_TARGET_ERROR == 2
PSE_SLOT_NOT_FOUND_ERROR == 3
PSE_TYPE_ERROR == 4
PSE_RANGE_ERROR == 5
PSE_ALLOWED_VALUES_ERROR == 6
PSE_CARDINALITY_ERROR == 7
PSE_ALLOWED_CLASSES_ERROR == 8

\* The most puts one into_fact_or_instance makes.
MaxPuts == 2

\* The slot names and the values the host's data puts; the last name holds a
\* NUL byte.
SlotNames == {"x", NulName}
SlotValues == {5, 7}
\* What the engine's *PutSlot* functions answer for a builder that is not null.
PutOutcomes == {PSE_NO_ERROR, PSE_INVALID_TARGET_ERROR, PSE_SLOT_NOT_FOUND_ERROR,
                PSE_TYPE_ERROR, PSE_RANGE_ERROR, PSE_ALLOWED_VALUES_ERROR,
                PSE_CARDINALITY_ERROR, PSE_ALLOWED_CLASSES_ERROR}

translate_put_slot_error(code) ==
    CASE code = PSE_NO_ERROR -> "Ok"
      [] code = PSE_NULL_POINTER_ERROR -> "unreachable"
      [] code = PSE_INVALID_TARGET_ERROR -> "FactOrInstanceRemoved"
      [] code = PSE_SLOT_NOT_FOUND_ERROR -> "SlotNotFound"
      [] code = PSE_TYPE_ERROR -> "SlotTypeViolated"
      [] code = PSE_RANGE_ERROR -> "SlotRangeViolated"
      [] code = PSE_ALLOWED_VALUES_ERROR -> "SlotAllowedValuesViolated"
      [] code = PSE_CARDINALITY_ERROR -> "SlotCardinalityViolated"
      [] code = PSE_ALLOWED_CLASSES_ERROR -> "SlotAllowedClassesViolated"
      [] OTHER -> "unreachable"

\* The engine's FBPutSlot* / IBPutSlot* on builder h.
EnginePutSlot(h, code) == IF h = 0 THEN PSE_NULL_POINTER_ERROR ELSE code

\* Mutant: the engine drops the fact it was given.
EngineAssert_lost(facts, template, slots) == facts

\* The engine's FBAssert (IBMake) when it succeeds: the fact list gets the
\* fact with the slot values of the builder.
EngineAssert(facts, template, slots) == Append(facts, [template |-> template, slots |-> slots])

\* assert_fact / make_instance up to the call of into_fact_or_instance: the
\* builder is taken from the cache or created and cached.
Build_begin(kind, name) ==
    /\ wpc = "recv"
    /\ nops < MaxOps
    /\ nops' = nops + 1
    /\ LET cache == IF kind = "fact" THEN fact_builders ELSE instance_builders
           cached == IsCached(cache, name)
           created == EngineCreateBuilder(name)
           h == IF cached THEN cache[name] ELSE created
           panics == ~cached /\ HasNul(name)
           creates == ~cached /\ ~panics
       IN
        /\ fact_builders' = IF creates /\ kind = "fact"
                            THEN MapPut(fact_builders, name, created) ELSE fact_builders
        /\ instance_builders' = IF creates /\ kind = "instance"
                                THEN MapPut(instance_builders, name, created)
                                ELSE instance_builders
        /\ fbError' = IF creates /\ kind = "fact"
                      THEN (IF created # 0 THEN FBE_NO_ERROR ELSE FBE_DEFTEMPLATE_NOT_FOUND_ERROR)
                      ELSE fbError
        /\ engLog' = IF creates
                     THEN Append(engLog, EngineCall(IF kind = "fact" THEN "CreateFactBuilder"
                                                    ELSE "CreateInstanceBuilder", name, created))
                     ELSE engLog
        /\ fbValues' = IF creates /\ created # 0 THEN MapPut(fbValues, created, <<>>) ELSE fbValues
        /\ building' = [NoBuilding EXCEPT !.kind = kind, !.name = name, !.h = h]
        /\ lastOp' = [op |-> IF kind = "fact" THEN "assert_fact" ELSE "make_instance",
                      name |-> name, res |-> IF panics THEN "ThreadExited" ELSE "none",
                      known |-> cached, valid |-> ~HasNul(name), h |-> h, reported |-> 0]
        /\ IF panics THEN WorkerPanics ELSE wpc' = "building" /\ UNCHANGED exitReason
    /\ UNCHANGED <<chanVars, callerVars, cur, started, executed, answered, convVars, bridgeVars,
                   storeVars, engineVars, events, lastCall, activeReg, everRegistered,
                   routerLog, engFacts, engInstances, dropped, envState, mbLive, fsOf, cwd,
                   envPc, lastChdir, registered, files>>

\* One put_*_slot call of the host's into_fact_or_instance: the slot name is
\* made a C string, the engine's answer is translated.
put_slot(slot_name, val, code) ==
    /\ wpc = "building"
    /\ building.nputs < MaxPuts
    /\ LET answer == EnginePutSlot(building.h, code)
           res == IF HasNul(slot_name) THEN "unwrap" ELSE translate_put_slot_error(answer)
       IN
        /\ fbValues' = IF res = "Ok"
                       THEN [fbValues EXCEPT ![building.h] = MapPut(@, slot_name, val)]
                       ELSE fbValues
        /\ building' = [building EXCEPT
                            !.nputs = @ + 1,
                            !.own = IF res = "Ok" THEN MapPut(@, slot_name, val) ELSE @,
                            !.last = [slot |-> slot_name, res |-> res,
                                      code |-> IF HasNul(slot_name) THEN PSE_NO_ERROR ELSE answer]]
        /\ IF Response(res) = "ThreadExited"
           THEN WorkerPanics /\ lastOp' = [lastOp EXCEPT !.res = "ThreadExited"]
           ELSE UNCHANGED <<wpc, exitReason, lastOp>>
    /\ UNCHANGED <<chanVars, callerVars, cur, started, executed, answered, convVars, bridgeVars,
                   storeVars, engineVars, nops, events, lastCall, activeReg, everRegistered,
                   routerLog, builderVars, fsOf, cwd, envPc, lastChdir, registered, files>>

\* What into_fact_or_instance may return: Ok, or the error its last put gave.
Returns == {"Ok"} \cup ({building.last.res} \ {""})

\* into_fact_or_instance returns `ret`; on Ok the rest of assert_fact /
\* make_instance: FBAssert / IBMake, for which the engine reports `outcome`,
\* and the match on FBError. The engine empties the builder it commits.
Build_end(ret, outcome) ==
    /\ wpc = "building"
    /\ ret \in Returns
    /\ LET h == building.h
           fact == building.kind = "fact"
           commits == ret = "Ok"
           good == commits /\ h # 0 /\ outcome = (IF fact THEN FBE_NO_ERROR ELSE IBE_NO_ERROR)
           report == IF fact /\ commits THEN (IF h = 0 THEN fbError ELSE outcome) ELSE fbError
           res == IF ~commits THEN ret
                  ELSE IF good THEN "Ok"
                  ELSE IF fact THEN AssertError(report) ELSE MakeError(report)
       IN
        /\ fbError' = report
        /\ engLog' = IF commits
                     THEN Append(engLog, EngineCall(IF fact THEN "FBAssert" ELSE "IBMake",
                                                    building.name, h))
                     ELSE engLog
        /\ engFacts' = IF good /\ fact
                       THEN EngineAssert(engFacts, building.name, fbValues[h]) ELSE engFacts
        /\ engInstances' = IF good /\ ~fact
                           THEN EngineAssert(engInstances, building.name, fbValues[h])
                           ELSE engInstances
        /\ fbValues' = IF commits /\ h # 0 THEN [fbValues EXCEPT ![h] = <<>>] ELSE fbValues
        /\ building' = [building EXCEPT !.done = TRUE, !.ret = ret, !.committed = commits]
        /\ lastOp' = [lastOp EXCEPT !.res = Response(res),
                                    !.reported = IF commits /\ h # 0 THEN outcome ELSE 0]
        /\ IF Response(res) = "ThreadExited" THEN WorkerPanics
           ELSE wpc' = "recv" /\ UNCHANGED exitReason
    /\ UNCHANGED <<chanVars, callerVars, cur, started, executed, answered, convVars, bridgeVars,
                   storeVars, engineVars, nops, events, lastCall, activeReg, everRegistered,
                   routerLog, fact_builders, instance_builders, dropped, envState, mbLive,
                   fsOf, cwd, envPc, lastChdir, registered, files>>

NextSlots ==
    \/ task_start
    \/ \E kind \in {"fact", "instance"} : \E name \in DefinitionNames : Build_begin(kind, name)
    \/ \E slot_name \in SlotNames : \E val \in SlotValues : \E code \in PutOutcomes :
        put_slot(slot_name, val, code)
    \/ \E ret \in Returns : \E outcome \in AssertOutcomes \cup MakeOutcomes :
        /\ outcome \in (IF building.kind = "fact" THEN AssertOutcomes ELSE MakeOutcomes)
        /\ Build_end(ret, outcome)

SpecSlots == Init /\ [][NextSlots]_vars

\* Facts asserted put by put, runs, and binary saves of the facts.
NextVisible ==
    \/ task_start
    \/ \E name \in EngineDefinitions \cup {"u"} : Build_begin("fact", name)
    \/ \E val \in SlotValues : \E code \in {PSE_NO_ERROR, PSE_SLOT_NOT_FOUND_ERROR} :
        put_slot("x", val, code)
    \/ \E ret \in Returns : \E outcome \in AssertOutcomes : Build_end(ret, outcome)
    \/ Cmd_Run_begin
    \/ Cmd_Run_end
    \/ Cmd_BinarySave("facts", "f1", TRUE)

SpecVisible == Init /\ [][NextVisible]_vars

\* ------------------------------------------- the worker's thread ends
\* JoinHandle::join returns when the worker's thread is over: its locals,
\* the CLIPSEnvironment among them, have been dropped.
ThreadFinished == wpc = "exited" /\ (EnvironmentDrops => envState = "destroyed")

\* Environment::close, second half, with the thread's end in steps.
close_join_finished(c) ==
    /\ ThreadFinished
    /\ close_join(c)

\* No builder is made here: the two loops of Drop have nothing to go through.
NextLifecycle ==
    \/ \E c \in Callers : \E inp \in HandleInputs : Handle_send(c, inp)
    \/ \E c \in Callers : Handle_recv(c)
    \/ \E c \in Callers : close_send(c)
    \/ \E c \in Callers : close_join_finished(c)
    \/ drop_handle
    \/ task_start
    \/ task_recv
    \/ task_exec
    \/ Drop_DestroyEnvironment

SpecLifecycle == Init /\ [][NextLifecycle]_vars

\* The threads run; the command in flight terminates (task_exec).
FairSpecLifecycle ==
    /\ SpecLifecycle
    /\ \A c \in Callers : WF_vars(Handle_recv(c))
    /\ \A c \in Callers : WF_vars(close_join_finished(c))
    /\ WF_vars(task_start)
    /\ WF_vars(task_recv)
    /\ WF_vars(task_exec)
    /\ WF_vars(Drop_DestroyEnvironment)

\* Registrations and removals, then the end of the worker and of its
\* environment.
NextStrings ==
    \/ task_start
    \/ \E name \in UdfNames : \E ar \in Arities :
        Cmd_AddUDF(name, ar[1], ar[2], "cb1")
    \/ \E name \in UdfNames : Cmd_RemoveUDF(name)
    \/ \E name \in RouterNames : Cmd_AddRouter(name, {"WRITE"})
    \/ Cmd_Close
    \/ Drop_DestroyEnvironment

SpecStrings == Init /\ [][NextStrings]_vars

\* ---------------------------------------------- the handle's operations
\* The commands the arms of the worker's match execute and answer.
WorkerArms ==
    {"LoadFromStr", "Run", "RunLimit", "ChDir", "BatchStar", "AddUDF", "AddRouter",
     "RemoveUDF", "AssertFact", "MakeInstance", "SetDynamicConstraintChecking",
     "SetConflictResolutionStrategy", "GetCurrentParsingLocation", "BinarySaveFacts",
     "BinaryLoadFacts", "BinarySaveInstances", "BinaryLoadInstances",
     "RetrieveGlobalsValues", "RestoreGlobals"}

\* The commands the methods of Environment send, one per method (close
\* aside): no method sends RunLimit.
HandleCommands ==
    {"LoadFromStr", "BatchStar", "ChDir", "Run", "AddUDF", "AddRouter",
     "RemoveUDF", "AssertFact", "MakeInstance", "SetDynamicConstraintChecking",
     "SetConflictResolutionStrategy", "GetCurrentParsingLocation", "BinarySaveFacts",
     "BinaryLoadFacts", "BinarySaveInstances", "BinaryLoadInstances",
     "RetrieveGlobalsValues", "RestoreGlobals"}

\* The operation the callers want, as the command that stands for it.
Wanted == input.s

\* A caller calls the method of the handle that sends the wanted command.
Handle_call(c) ==
    /\ Wanted \in HandleCommands
    /\ Handle_send(c, [kind |-> Wanted, nul |-> FALSE])

InitSurface ==
    /\ InitState
    /\ input \in {[tag |-> "Command", i |-> 0, s |-> k] : k \in WorkerArms}
    /\ output = NoOutput

NextSurface ==
    \/ \E c \in Callers : Handle_call(c)
    \/ \E c \in Callers : Handle_recv(c)
    \/ task_start
    \/ task_recv
    \/ task_exec

SpecSurface == InitSurface /\ [][NextSurface]_vars

\* The threads run, and a caller that has a method to call calls it.
FairSpecSurface ==
    /\ SpecSurface
    /\ WF_vars(\E c \in Callers : Handle_call(c))
    /\ \A c \in Callers : WF_vars(Handle_recv(c))
    /\ WF_vars(task_start)
    /\ WF_vars(task_recv)
    /\ WF_vars(task_exec)

\* ------------------------------------------------- callbacks, step by step
\* call_udf up to the call of the callback: retrieve_udf_map reads the
\* pointer in the store's slot (GetEnvironmentData leaves it there) and makes
\* a Box of it; get_mut(name).unwrap() finds the callback.
call_udf_begin(name) ==
    /\ wpc = "running"
    /\ events < MaxEvents
    /\ name \in engFuncs
    /\ events' = events + 1
    /\ udfOwners' = udfOwners + 1
    /\ IF name \in DOMAIN udf_map
       THEN /\ callback' = name
            /\ wpc' = "callback"
            /\ UNCHANGED exitReason
       ELSE /\ WorkerPanics
            /\ UNCHANGED callback
    /\ UNCHANGED <<chanVars, callerVars, cur, started, executed, answered, convVars,
                   storeVars, engineVars, nops, lastOp, lastCall, activeReg, everRegistered,
                   routerLog, udfInStore, cbWait, builderVars, extVars>>

\* The callback, through UDFData::env(), calls remove_udf on the environment
\* it runs in: retrieve_udf_map makes a second Box of the pointer in the slot.
callback_retrieve_udf_map ==
    /\ wpc = "callback"
    /\ udfOwners = 1
    /\ udfInStore
    /\ udfOwners' = udfOwners + 1
    /\ UNCHANGED <<chanVars, callerVars, workerVars, convVars, storeVars, engineVars, obsVars,
                   callback, udfInStore, cbWait, builderVars, extVars>>

\* The rest of that remove_udf: the entry is removed through the second Box
\* and the pointer is stored again. Removing the entry of the callback that
\* is executing frees it under its feet: it goes on or the thread dies.
callback_remove_udf(name) ==
    /\ wpc = "callback"
    /\ udfOwners = 2
    /\ ~HasNul(name)
    /\ udf_map' = UdfTableAfterRemove(name)
    /\ engFuncs' = engFuncs \ {name}
    /\ activeReg' = MapDel(activeReg, name)
    /\ udfOwners' = udfOwners - 1
    /\ udfInStore' = TRUE
    /\ \E survives \in BOOLEAN :
        IF name # callback \/ survives
        THEN UNCHANGED <<wpc, exitReason, callback>>
        ELSE WorkerPanics /\ callback' = ""
    /\ UNCHANGED <<chanVars, callerVars, cur, started, executed, answered, convVars,
                   router_map, strings_to_drop, cstrings, engRouters, engGlobals, nops, lastOp,
                   events,
                   lastCall, everRegistered, routerLog, cbWait, builderVars, extVars>>

\* The callback returns and call_udf stores the table: store_udf_map puts
\* the Box's pointer in the slot.
call_udf_end ==
    /\ wpc = "callback"
    /\ udfOwners = 1
    /\ cbWait = 0
    /\ lastCall' = [name |-> callback, ran |-> "returned", registered |-> ""]
    /\ udfOwners' = udfOwners - 1
    /\ udfInStore' = TRUE
    /\ callback' = ""
    /\ wpc' = "running"
    /\ UNCHANGED <<chanVars, callerVars, cur, started, executed, answered, convVars,
                   exitReason, storeVars, engineVars, nops, lastOp, events, activeReg,
                   everRegistered, routerLog, cbWait, builderVars, extVars>>

NextBridge ==
    \/ task_start
    \/ \E name \in UdfNames : \E ar \in Arities : \E function \in Callbacks :
        Cmd_AddUDF(name, ar[1], ar[2], function)
    \/ Cmd_Run_begin
    \/ \E name \in UdfNames : call_udf_begin(name)
    \/ callback_retrieve_udf_map
    \/ \E name \in UdfNames : callback_remove_udf(name)
    \/ call_udf_end
    \/ Cmd_Run_end

SpecBridge == Init /\ [][NextBridge]_vars

\* --------------------------------------- a callback that calls the handle
\* The Run arm is executing and the engine calls a callback (call_udf, or a
\* router handler) on the worker thread.
exec_callback_begin ==
    /\ wpc = "exec"
    /\ cur.kind = "Run"
    /\ wpc' = "callback"
    /\ UNCHANGED <<chanVars, callerVars, cur, exitReason, started, executed, answered, storeVars,
                   engineVars, obsVars, convVars, callback, udfInStore, udfOwners, cbWait,
                   builderVars, extVars>>

\* The callback calls a method of the Environment handle it captured: the
\* command is sent on the channel and the callback blocks in res_rx.recv().
callback_handle_call ==
    /\ wpc = "callback"
    /\ cbWait = 0
    /\ txAlive
    /\ rxAlive
    /\ nextId <= MaxCmds
    /\ queue' = Append(queue, [id |-> nextId, kind |-> "Run", nul |-> FALSE])
    /\ slot' = [slot EXCEPT ![nextId] = "pending"]
    /\ owner' = [owner EXCEPT ![nextId] = "callback"]
    /\ nextId' = nextId + 1
    /\ cbWait' = nextId
    /\ UNCHANGED <<txAlive, rxAlive, nsent, respOf, cpc, waitId, result, lastResult,
                   closeRes, closeId, closeBehind, workerVars, storeVars, engineVars, obsVars,
                   convVars, callback, udfInStore, udfOwners, builderVars, extVars>>

\* The callback returns to the engine, after the response to its own call
\* has arrived if it made one.
exec_callback_end ==
    /\ wpc = "callback"
    /\ cbWait # 0 => slot[cbWait] \in {"sent", "txdropped"}
    /\ result' = IF cbWait = 0 THEN result
                 ELSE [result EXCEPT ![cbWait] =
                        IF slot[cbWait] = "sent" THEN "Resp" ELSE "ThreadExited"]
    /\ cbWait' = 0
    /\ wpc' = "exec"
    /\ UNCHANGED <<chanVars, cpc, waitId, owner, lastResult, closeRes, closeId, closeBehind,
                   cur, exitReason, started, executed, answered, storeVars, engineVars,
                   obsVars, convVars, callback, udfInStore, udfOwners, builderVars, extVars>>

NextReentrant ==
    \/ \E c \in Callers : \E inp \in HandleInputs : Handle_send(c, inp)
    \/ \E c \in Callers : Handle_recv(c)
    \/ task_start
    \/ task_recv
    \/ exec_callback_begin
    \/ callback_handle_call
    \/ exec_callback_end
    \/ task_exec

SpecReentrant == Init /\ [][NextReentrant]_vars

\* The threads that can run do run; whether the engine calls a callback and
\* whether the callback calls the handle is up to the program.
FairSpecReentrant ==
    /\ SpecReentrant
    /\ \A c \in Callers : WF_vars(Handle_recv(c))
    /\ WF_vars(task_start)
    /\ WF_vars(task_recv)
    /\ WF_vars(exec_callback_end)
    /\ WF_vars(task_exec)

\* ------------------------------------------------------ value conversions
\* Items of one multifield.
MaxItems == 2

\* f64 values, by name; the last three are not finite.
Floats == {"0.5", "-2.0", "inf", "-inf", "NaN"}
IsFinite(f) == f \notin {"inf", "-inf", "NaN"}

FloatV(f) == [tag |-> "Float", i |-> 0, s |-> f]
MultifieldV(items) == [tag |-> "Multifield", i |-> 0, s |-> "", items |-> items]

\* Sequences of at most MaxItems members of S.
SeqsUpTo(S) == UNION {[1..n -> S] : n \in 0..MaxItems}

\* The scalar host values the conversions are applied to.
Scalars ==
    {SymbolV("a"), SymbolV("TRUE"), SymbolV("FALSE"), IntV(1), IntV(-1),
     StringV("a"), StringV("TRUE"), StringV(NulName),
     BoolV(TRUE), BoolV(FALSE)} \cup {FloatV(f) : f \in Floats}
\* Multifields nested to depth 1 and to depth 2.
InnerScalars == {SymbolV("a"), FloatV("NaN")}
Multifields1 == {MultifieldV(items) : items \in SeqsUpTo(InnerScalars)}
Multifields2 == {MultifieldV(items) : items \in SeqsUpTo(InnerScalars \cup Multifields1)}
HostValues == Scalars \cup Multifields1 \cup Multifields2

\* #[derive(PartialEq)] on CLIPSValue: f64 compares by IEEE equality, under
\* which NaN differs from itself.
RECURSIVE ValueEq(_, _)
ValueEq(a, b) ==
    /\ a.tag = b.tag
    /\ CASE a.tag = "Float" -> a.s = b.s /\ a.s # "NaN"
         [] a.tag = "Multifield" ->
                /\ Len(a.items) = Len(b.items)
                /\ \A k \in 1..Len(a.items) : ValueEq(a.items[k], b.items[k])
         [] OTHER -> a = b

\* A JSON document: null, a boolean, a number, a string, an array, or an
\* object with one member (key s, value items[1]).
JNull == [j |-> "null", i |-> 0, s |-> "", items |-> <<>>]
JBool(b) == [j |-> "bool", i |-> IF b THEN 1 ELSE 0, s |-> "", items |-> <<>>]
JInt(i) == [j |-> "int", i |-> i, s |-> "", items |-> <<>>]
JFloat(f) == [j |-> "float", i |-> 0, s |-> f, items |-> <<>>]
JStr(s) == [j |-> "str", i |-> 0, s |-> s, items |-> <<>>]
JArr(items) == [j |-> "arr", i |-> 0, s |-> "", items |-> items]
JObj(key, val) == [j |-> "obj", i |-> 0, s |-> key, items |-> <<val>>]

\* #[derive(Serialize)] on CLIPSValue written as JSON: an object keyed by the
\* variant's name; the JSON writer has no number for a float that is not
\* finite and writes null.
RECURSIVE Encode(_)
Encode(v) ==
    CASE v.tag = "Symbol" -> JObj("Symbol", JStr(v.s))
      [] v.tag = "Int" -> JObj("Int", JInt(v.i))
      [] v.tag = "String" -> JObj("String", JStr(v.s))
      [] v.tag = "Float" -> JObj("Float", IF IsFinite(v.s) THEN JFloat(v.s) ELSE JNull)
      [] v.tag = "Bool" -> JObj("Bool", JBool(v.i = 1))
      [] v.tag = "Multifield" ->
            JObj("Multifield", JArr([k \in 1..Len(v.items) |-> Encode(v.items[k])]))

DecodeError == [ok |-> FALSE, v |-> NoValue]
Decoded(v) == [ok |-> TRUE, v |-> v]

\* Mutant: the decoder reads a Symbol member as a String.
DecodeLexeme_string(key, s) == StringV(s)

\* visit_map's "Symbol" and "String" arms.
DecodeLexeme(key, s) == IF key = "Symbol" THEN SymbolV(s) ELSE StringV(s)

\* Deserialize for CLIPSValue: deserialize_any with CLIPSValueVisitor. An
\* object goes to visit_map, which reads the member's value as the type of
\* the variant its key names; numbers, booleans and arrays outside an
\* object go to the visit_* methods; a bare string or null is refused.
RECURSIVE Decode(_)
Decode(doc) ==
    LET val == doc.items[1]
        elems == [k \in 1..Len(doc.items) |-> Decode(doc.items[k])]
        members == [k \in 1..Len(val.items) |-> Decode(val.items[k])]
    IN
    CASE doc.j = "obj" /\ doc.s \in {"Symbol", "String"} ->
            IF val.j = "str" THEN Decoded(DecodeLexeme(doc.s, val.s)) ELSE DecodeError
      [] doc.j = "obj" /\ doc.s = "Int" ->
            IF val.j = "int" THEN Decoded(IntV(val.i)) ELSE DecodeError
      [] doc.j = "obj" /\ doc.s = "Float" ->
            IF val.j = "float" THEN Decoded(FloatV(val.s))
            ELSE IF val.j = "int" THEN Decoded(FloatV(ToString(val.i) \o ".0"))
            ELSE DecodeError
      [] doc.j = "obj" /\ doc.s = "Bool" ->
            IF val.j = "bool" THEN Decoded(BoolV(val.i = 1)) ELSE DecodeError
      [] doc.j = "obj" /\ doc.s = "Multifield" ->
            IF val.j = "arr" /\ \A k \in 1..Len(members) : members[k].ok
            THEN Decoded(MultifieldV([k \in 1..Len(members) |-> members[k].v]))
            ELSE DecodeError
      [] doc.j = "int" -> Decoded(IntV(doc.i))
      [] doc.j = "float" -> Decoded(FloatV(doc.s))
      [] doc.j = "bool" -> Decoded(BoolV(doc.i = 1))
      [] doc.j = "arr" ->
            IF \A k \in 1..Len(elems) : elems[k].ok
            THEN Decoded(MultifieldV([k \in 1..Len(elems) |-> elems[k].v]))
            ELSE DecodeError
      [] OTHER -> DecodeError

\* Encoding a value as JSON and decoding the document.
JsonRoundTrip ==
    /\ input \in HostValues
    /\ output' = [fn |-> "json"] @@ Decode(Encode(input))
    /\ UNCHANGED <<chanVars, callerVars, workerVars, storeVars, engineVars, obsVars, input,
                   bridgeVars, builderVars, extVars>>

\* extract_clipsvalue: the host value read from an engine value; a type it
\* has no arm for ends in unimplemented!().
Unimplemented == [ok |-> FALSE, v |-> NoValue]
RECURSIVE extract_clipsvalue(_)
extract_clipsvalue(val) ==
    CASE val.type = "FLOAT_TYPE" -> Decoded(FloatV(val.s))
      [] val.type = "INTEGER_TYPE" -> Decoded(IntV(val.i))
      [] val.type = "SYMBOL_TYPE" ->
            Decoded(CASE val.s = "TRUE" -> BoolV(TRUE)
                      [] val.s = "FALSE" -> BoolV(TRUE)
                      [] OTHER -> SymbolV(val.s))
      [] val.type = "STRING_TYPE" -> Decoded(StringV(val.s))
      [] val.type = "MULTIFIELD_TYPE" ->
            LET vals == [k \in 1..Len(val.items) |-> extract_clipsvalue(val.items[k])] IN
            IF \A k \in 1..Len(vals) : vals[k].ok
            THEN Decoded(MultifieldV([k \in 1..Len(vals) |-> vals[k].v]))
            ELSE Unimplemented
      [] OTHER -> Unimplemented

\* restore_globals writing a host value into a global, then
\* retrieve_globals_values reading the global.
RestoreThenRetrieve ==
    /\ input \in HostValues
    /\ output' = IF ConvertPanics(input)
                 THEN [fn |-> "host_engine_host", ok |-> FALSE, v |-> NoValue]
                 ELSE [fn |-> "host_engine_host"] @@ extract_clipsvalue(ToEngine(input))
    /\ UNCHANGED <<chanVars, callerVars, workerVars, storeVars, engineVars, obsVars, input,
                   bridgeVars, builderVars, extVars>>

InitHostValue ==
    /\ InitState
    /\ input \in HostValues
    /\ output = NoOutput

NextHostValue ==
    \/ JsonRoundTrip
    \/ RestoreThenRetrieve

SpecHostValue == InitHostValue /\ [][NextHostValue]_vars

\* The values a global of the engine can hold: scalars, and flat multifields
\* of scalars.
EngineScalars ==
    {EngineInteger(1), EngineInteger(-1), EngineFloat("0.5"),
     EngineLexeme("SYMBOL_TYPE", "a"), EngineLexeme("SYMBOL_TYPE", "TRUE"),
     EngineLexeme("SYMBOL_TYPE", "FALSE"), EngineLexeme("STRING_TYPE", "a"),
     EngineLexeme("STRING_TYPE", "FALSE"), EngineLexeme("INSTANCE_NAME_TYPE", "i1")}
EngineValues == EngineScalars \cup {EngineMultifield(items) : items \in SeqsUpTo(EngineScalars)}

\* What the engine prints for a value.
RECURSIVE PrintedForm(_)
PrintedForm(val) ==
    CASE val.type = "INTEGER_TYPE" -> <<ToString(val.i)>>
      [] val.type = "STRING_TYPE" -> <<"\"", val.s, "\"">>
      [] val.type = "INSTANCE_NAME_TYPE" -> <<"[", val.s, "]">>
      [] val.type = "MULTIFIELD_TYPE" ->
            <<"(">> \o Flatten([k \in 1..Len(val.items) |-> PrintedForm(val.items[k])])
                \o <<")">>
      [] OTHER -> <<val.s>>

\* retrieve_globals_values reading one global.
Extract ==
    /\ input \in EngineValues
    /\ output' = [fn |-> "extract"] @@ extract_clipsvalue(input)
    /\ UNCHANGED <<chanVars, callerVars, workerVars, storeVars, engineVars, obsVars, input,
                   bridgeVars, builderVars, extVars>>

\* retrieve_globals_values reading a global, then restore_globals writing
\* the snapshot's value back; v is the engine value the global holds after.
RetrieveThenRestore ==
    /\ input \in EngineValues
    /\ LET host == extract_clipsvalue(input) IN
        output' = IF host.ok /\ ~ConvertPanics(host.v)
                  THEN [fn |-> "engine_host_engine", ok |-> TRUE, v |-> ToEngine(host.v)]
                  ELSE [fn |-> "engine_host_engine", ok |-> FALSE, v |-> NoValue]
    /\ UNCHANGED <<chanVars, callerVars, workerVars, storeVars, engineVars, obsVars, input,
                   bridgeVars, builderVars, extVars>>

InitEngineValue ==
    /\ InitState
    /\ input \in EngineValues
    /\ output = NoOutput

NextEngineValue ==
    \/ Extract
    \/ RetrieveThenRestore

SpecEngineValue == InitEngineValue /\ [][NextEngineValue]_vars

\* ------------------------------------------------- working directories
\* Directories a chdir command names; set_current_dir fails for the last.
Dirs == {"/", "/a", "/b", "/missing"}
ExistingDirs == {"/", "/a", "/b"}

\* The working directory a thread sees.
CwdSeen(t) == cwd[fsOf[t]]

\* Mutant: the worker goes on using the context it was spawned with.
unshare_shared(e) == fsOf[e]

\* unshare(CloneFlags::CLONE_FS): the calling thread gets a filesystem
\* context of its own, a copy of the one it used.
unshare(e) == e

\* Environment::new: the worker thread is spawned; a new thread shares the
\* filesystem context of the process.
Environment_new(e) ==
    /\ envPc[e] = "none"
    /\ envPc' = [envPc EXCEPT ![e] = "starting"]
    /\ fsOf' = [fsOf EXCEPT ![e] = fsOf["host"]]
    /\ UNCHANGED <<chanVars, callerVars, workerVars, storeVars, engineVars, obsVars, convVars,
                   bridgeVars, builderVars, cwd, lastChdir, registered, files, slotVars>>

\* clips_environment_task before the loop, for the worker of e: unshare and
\* CLIPSEnvironment::new, either of which may fail (unwrap panics).
Environment_task_start(e) ==
    /\ envPc[e] = "starting"
    /\ \E okUnshare, okNew \in BOOLEAN :
        /\ envPc' = [envPc EXCEPT ![e] = IF okUnshare /\ okNew THEN "recv" ELSE "exited"]
        /\ IF okUnshare
           THEN /\ fsOf' = [fsOf EXCEPT ![e] = unshare(e)]
                /\ cwd' = [cwd EXCEPT ![unshare(e)] = CwdSeen(e)]
           ELSE UNCHANGED <<fsOf, cwd>>
    /\ UNCHANGED <<chanVars, callerVars, workerVars, storeVars, engineVars, obsVars, convVars,
                   bridgeVars, builderVars, lastChdir, registered, files, slotVars>>

\* The worker's ChDir arm: set_current_dir(new_dir) on the worker thread,
\* its result sent back.
Cmd_ChDir(e, new_dir) ==
    /\ envPc[e] = "recv"
    /\ nops < MaxOps
    /\ nops' = nops + 1
    /\ LET ok == new_dir \in ExistingDirs IN
        /\ cwd' = IF ok THEN [cwd EXCEPT ![fsOf[e]] = new_dir] ELSE cwd
        /\ lastChdir' = [env |-> e, dir |-> new_dir, ok |-> ok, n |-> nops']
    /\ UNCHANGED <<chanVars, callerVars, workerVars, storeVars, engineVars, lastOp, events,
                   lastCall, activeReg, everRegistered, routerLog, convVars, bridgeVars,
                   builderVars, fsOf, envPc, registered, files, slotVars>>

\* The worker of e leaves its loop (Close, or its handle was dropped).
Environment_close(e) ==
    /\ envPc[e] = "recv"
    /\ envPc' = [envPc EXCEPT ![e] = "exited"]
    /\ UNCHANGED <<chanVars, callerVars, workerVars, storeVars, engineVars, obsVars, convVars,
                   bridgeVars, builderVars, fsOf, cwd, lastChdir, registered, files, slotVars>>

NextChdir ==
    \/ \E e \in Envs : Environment_new(e)
    \/ \E e \in Envs : Environment_task_start(e)
    \/ \E e \in Envs : \E new_dir \in Dirs : Cmd_ChDir(e, new_dir)
    \/ \E e \in Envs : Environment_close(e)

SpecChdir == Init /\ [][NextChdir]_vars

\* ------------------------------------------------- multifield builders
\* The collections marshalled: those of HostValues, and two that hold a
\* string with a NUL byte.
MultifieldInputs ==
    Multifields1 \cup Multifields2
        \cup {MultifieldV(<<StringV(NulName)>>),
              MultifieldV(<<MultifieldV(<<>>), StringV(NulName)>>)}

\* The multifield builders CLIPSFrom<CLIPSValue> creates for v: one per
\* Vec<CLIPSValue> at any level, the members converted in order up to the
\* first whose conversion panics.
RECURSIVE MBCreated(_)
RECURSIVE MBCreatedUpTo(_, _)
MBCreatedUpTo(items, k) ==
    IF k > Len(items) THEN 0
    ELSE MBCreated(items[k]) + (IF ConvertPanics(items[k]) THEN 0 ELSE MBCreatedUpTo(items, k + 1))
MBCreated(v) == IF v.tag = "Multifield" THEN 1 + MBCreatedUpTo(v.items, 1) ELSE 0

\* CLIPSFrom<CLIPSValue> for clips_sys::CLIPSValue applied to a Multifield,
\* as restore_globals, put_slot and set_result do: CLIPSFrom<Vec<CLIPSValue>>
\* calls MBCreate and returns, there is no MBDispose.
into_multifield ==
    /\ input \in MultifieldInputs
    /\ nops < MaxOps
    /\ nops' = nops + 1
    /\ mbLive' = mbLive + MBCreated(input)
    /\ output' = IF ConvertPanics(input)
                 THEN [fn |-> "into_multifield", ok |-> FALSE, v |-> NoValue]
                 ELSE [fn |-> "into_multifield", ok |-> TRUE, v |-> ToEngine(input)]
    /\ UNCHANGED <<chanVars, callerVars, workerVars, storeVars, engineVars, lastOp, events,
                   lastCall, activeReg, everRegistered, routerLog, input, bridgeVars,
                   fact_builders, instance_builders, fbError, engFacts, engInstances, engLog,
                   dropped, envState, extVars>>

\* FactBuilderData::put_multifield_slot and InstanceBuilderData's, given the
\* members of the input as vals: the builder is disposed after MBCreate,
\* unless the conversion of a member panicked before.
put_multifield_slot ==
    /\ input \in MultifieldInputs
    /\ nops < MaxOps
    /\ nops' = nops + 1
    /\ mbLive' = mbLive + 1 + MBCreatedUpTo(input.items, 1)
                    - (IF ConvertPanics(input) THEN 0 ELSE 1)
    /\ output' = IF ConvertPanics(input)
                 THEN [fn |-> "put_multifield_slot", ok |-> FALSE, v |-> NoValue]
                 ELSE [fn |-> "put_multifield_slot", ok |-> TRUE, v |-> ToEngine(input)]
    /\ UNCHANGED <<chanVars, callerVars, workerVars, storeVars, engineVars, lastOp, events,
                   lastCall, activeReg, everRegistered, routerLog, input, bridgeVars,
                   fact_builders, instance_builders, fbError, engFacts, engInstances, engLog,
                   dropped, envState, extVars>>

InitMultifield ==
    /\ InitState
    /\ input \in MultifieldInputs
    /\ output = NoOutput

NextMultifield ==
    \/ into_multifield
    \/ put_multifield_slot

SpecMultifield == InitMultifield /\ [][NextMultifield]_vars

\* ------------------------------------------- user function arguments
\* A lexeme of the engine that is not valid UTF-8.
NonUnicode == "<0xFF>"
IsUnicode(s) == s # NonUnicode

\* The engine values a user function is called with.
UdfArgs ==
    EngineScalars \cup
        {EngineLexeme("SYMBOL_TYPE", NonUnicode), EngineLexeme("STRING_TYPE", NonUnicode),
         EngineLexeme("INSTANCE_NAME_TYPE", NonUnicode), EngineMultifield(<<>>)}

\* The host types with a TryFrom<UDFValue>.
HostTypes == {"usize", "u64", "String", "CLIPSSymbol", "bool", "CLIPSInstanceName", "f64"}

Converted(v) == [ok |-> TRUE, v |-> v, err |-> "", kind |-> ""]
InvalidType(kind) == [ok |-> FALSE, v |-> NoValue, err |-> "InvalidType", kind |-> kind]
ConversionError(err) == [ok |-> FALSE, v |-> NoValue, err |-> err, kind |-> ""]

\* `contents as usize` / `as u64` of the engine's 64-bit integer: a negative
\* one wraps, i stands for 2^64 + i.
AsUnsigned(i) == IF i >= 0 THEN IntV(i) ELSE [tag |-> "Int", i |-> i, s |-> "2^64+i"]

\* CStr::to_str on the lexeme, mapped to ValueNotUnicode.
LexemeToString(val, made) ==
    IF IsUnicode(val.s) THEN Converted(made) ELSE ConversionError("ValueNotUnicode")

InstanceNameV(s) == [tag |-> "InstanceName", i |-> 0, s |-> s]

\* TryFrom<sys::UDFValue> for the host type T.
try_from(T, value) ==
    CASE T \in {"usize", "u64"} ->
            IF value.type = "INTEGER_TYPE" THEN Converted(AsUnsigned(value.i))
            ELSE InvalidType("integer")
      [] T = "String" ->
            IF value.type = "STRING_TYPE" THEN LexemeToString(value, StringV(value.s))
            ELSE InvalidType("string")
      [] T = "CLIPSSymbol" ->
            IF value.type = "SYMBOL_TYPE" THEN LexemeToString(value, SymbolV(value.s))
            ELSE InvalidType("symbol")
      [] T = "bool" ->
            IF value.type = "SYMBOL_TYPE"
            THEN CASE ~IsUnicode(value.s) -> ConversionError("panic")
                   [] value.s = "TRUE" -> Converted(BoolV(TRUE))
                   [] value.s = "FALSE" -> Converted(BoolV(FALSE))
                   [] OTHER -> ConversionError("ValueNotBoolean")
            ELSE InvalidType("bool (symbol)")
      [] T = "CLIPSInstanceName" ->
            IF value.type = "INSTANCE_NAME_TYPE" THEN LexemeToString(value, InstanceNameV(value.s))
            ELSE InvalidType("symbol")
      [] T = "f64" ->
            IF value.type = "FLOAT_TYPE" THEN Converted(FloatV(value.s))
            ELSE InvalidType("float")

\* UDFData::first_arg / next_arg / nth_arg for the host type T: the engine
\* hands the argument over or not, then the conversion.
nth_arg(T, res) ==
    /\ input \in UdfArgs
    /\ output' = [fn |-> "nth_arg", ty |-> T, retrieved |-> res]
                    @@ (IF res THEN try_from(T, input)
                        ELSE ConversionError("ArgumentNotRetrieved"))
    /\ UNCHANGED <<chanVars, callerVars, workerVars, storeVars, engineVars, obsVars, input,
                   bridgeVars, builderVars, extVars>>

InitUdfValue ==
    /\ InitState
    /\ input \in UdfArgs
    /\ output = NoOutput

NextUdfValue == \E T \in HostTypes : \E res \in BOOLEAN : nth_arg(T, res)

SpecUdfValue == InitUdfValue /\ [][NextUdfValue]_vars

\* ------------------------------------------- typed values, outbound
\* A 64-bit quantity b * 2^63 + o, with o small: the unsigned ones go from
\* Wide(0, 0) to Wide(2, -1), the signed ones from Wide(-1, 0) to Wide(1, -1).
Wide(b, o) == [b |-> b, o |-> o]
IsNegative(w) == w.b < 0 \/ (w.b = 0 /\ w.o < 0)
AtLeast2p63(w) == w.b > 1 \/ (w.b = 1 /\ w.o >= 0)

\* `value as i64` of a u64 or usize: 2^64 is taken off a value of 2^63 or more.
as_i64(w) == IF AtLeast2p63(w) THEN Wide(w.b - 2, w.o) ELSE w
\* `contents as u64` / `as usize` of an i64: 2^64 is added to a negative one.
as_u64(w) == IF IsNegative(w) THEN Wide(w.b + 2, w.o) ELSE w

\* The largest offset of the numbers converted.
MaxOffset == 3
Offsets == 0..MaxOffset
\* The host's unsigned numbers and the engine's integers that are converted.
Unsigneds ==
    {Wide(0, o) : o \in Offsets} \cup {Wide(1, o) : o \in Offsets}
        \cup {Wide(1, -o - 1) : o \in Offsets} \cup {Wide(2, -o - 1) : o \in Offsets}
Signeds ==
    {Wide(0, o) : o \in Offsets} \cup {Wide(0, -o - 1) : o \in Offsets}
        \cup {Wide(-1, o) : o \in Offsets} \cup {Wide(1, -o - 1) : o \in Offsets}

\* The texts of the host's strings, symbols and instance names.
HostTexts == {"a", "i1", "TRUE"}
\* The host types with a CLIPSFrom for UDFValue and for CLIPSValue.
UnsignedTypes == {"usize", "u64"}
LexemeTypes == {"String", "CLIPSSymbol", "CLIPSInstanceName"}
\* The typed host values handed to a conversion, and the engine's integers.
TypedValues ==
    {[side |-> "host", ty |-> T, s |-> "", w |-> w] : T \in UnsignedTypes, w \in Unsigneds}
        \cup {[side |-> "host", ty |-> T, s |-> t, w |-> Wide(0, 0)] :
                T \in LexemeTypes, t \in HostTexts}
EngineIntegers == {[side |-> "engine", ty |-> "i64", s |-> "", w |-> w] : w \in Signeds}

\* The atom CLIPSFrom<CLIPSInstanceName> makes: CreateSymbol.
InstanceNameAtom == "SYMBOL_TYPE"

\* CLIPSFrom<T> for clips_sys::UDFValue and for clips_sys::CLIPSValue.
from(T, value) ==
    CASE T \in UnsignedTypes -> EngineInteger(as_i64(value.w))
      [] T = "String" -> EngineLexeme("STRING_TYPE", value.s)
      [] T = "CLIPSSymbol" -> EngineLexeme("SYMBOL_TYPE", value.s)
      [] T = "CLIPSInstanceName" -> EngineLexeme(InstanceNameAtom, value.s)

\* TryFrom<sys::UDFValue> for usize and u64, on 64-bit quantities.
try_from_unsigned(value) ==
    IF value.type = "INTEGER_TYPE"
    THEN Converted([tag |-> "Int", i |-> 0, s |-> "", w |-> as_u64(value.i)])
    ELSE InvalidType("integer")

\* The engine value read back as the host type T.
ReadBack(T, value) ==
    IF T \in UnsignedTypes THEN try_from_unsigned(value) ELSE try_from(T, value)

\* A typed host value is converted for `target` (a UDFValue as a user
\* function's result, a CLIPSValue as a slot or global value), and the engine
\* value is read back as the same type.
Outbound(target) ==
    /\ input.side = "host"
    /\ output' = [fn |-> "from", target |-> target, engine |-> from(input.ty, input),
                  back |-> ReadBack(input.ty, from(input.ty, input))]
    /\ UNCHANGED <<chanVars, callerVars, workerVars, storeVars, engineVars, obsVars, input,
                   bridgeVars, builderVars, extVars>>

\* An integer of the engine is read as the unsigned host type T.
Inbound(T) ==
    /\ input.side = "engine"
    /\ output' = [fn |-> "try_from", target |-> T, engine |-> EngineInteger(input.w),
                  back |-> try_from_unsigned(EngineInteger(input.w))]
    /\ UNCHANGED <<chanVars, callerVars, workerVars, storeVars, engineVars, obsVars, input,
                   bridgeVars, builderVars, extVars>>

InitOutbound ==
    /\ InitState
    /\ input \in TypedValues \cup EngineIntegers
    /\ output = NoOutput

NextOutbound ==
    \/ \E target \in {"UDFValue", "CLIPSValue"} : Outbound(target)
    \/ \E T \in UnsignedTypes : Inbound(T)

SpecOutbound == InitOutbound /\ [][NextOutbound]_vars

\* ------------------------------------------------------------------ helpers
Range(f) == {f[k] : k \in DOMAIN f}
IsIncreasing(f) == \A j, k \in DOMAIN f : j < k => f[j] < f[k]
IsPrefix(f, g) == Len(f) <= Len(g) /\ \A k \in 1..Len(f) : f[k] = g[k]
\* A call of caller c for command i has returned.
Returned(i) == owner[i] # "" /\ waitId[owner[i]] # i

\* ------------------------------------------------------------------- claims
\* C1: commands are executed, and their responses sent, in exactly the order
\* in which they were enqueued (ids are given in enqueue order), whoever
\* enqueued them.
C1_Fifo ==
    /\ IsIncreasing(started)
    /\ IsIncreasing(executed)
    /\ IsIncreasing(answered)
    /\ IsPrefix(answered, executed)
    /\ IsPrefix(executed, started)

\* C1's case: two callers' commands answered in turn while a third is queued.
C1_Witness ==
    /\ Len(answered) >= 2
    /\ owner[answered[1]] # owner[answered[2]]
    /\ Len(queue) >= 1

\* C2: a command gets at most one response, a returned call has exactly one
\* result, that result is the response the worker sent for that very command
\* or else ThreadExited, and it went to the caller that enqueued the command.
C2_OneResult ==
    \A i \in Ids :
        /\ nsent[i] <= 1
        /\ Returned(i) <=> result[i] # "none"
        /\ result[i] = "Resp" => (nsent[i] = 1 /\ respOf[i] = i /\ owner[i] # "")
        /\ result[i] = "ThreadExited" => (nsent[i] = 0 /\ slot[i] = "txdropped")
        /\ \A c \in Callers : waitId[c] = i => owner[i] = c

\* C2's case: one caller got the worker's response, another ThreadExited.
C2_Witness ==
    \E i, j \in Ids :
        /\ result[i] = "Resp"
        /\ result[j] = "ThreadExited"
        /\ owner[i] # owner[j]

\* C3: at most one command is in the engine at a time: every command the
\* worker dequeued before the latest one had run and been answered, and a
\* command is in flight only in the executing step of the one worker.
C3_Serialised ==
    /\ Len(started) <= Len(answered) + 1
    /\ IsPrefix(answered, started)
    /\ (cur # NoCmd) <=> (wpc = "exec")
    /\ wpc = "exec" => (started # <<>> /\ cur.id = started[Len(started)])

\* C3's case: a command is executing while two callers' commands wait in the queue.
C3_Witness ==
    /\ wpc = "exec"
    /\ Len(queue) >= 2
    /\ Len(answered) >= 1

\* C4: once the worker has exited, a caller waiting for a response that was
\* not sent gets ThreadExited, a caller that calls afterwards gets
\* ThreadExited, and no caller stays blocked.
C4_NoCallerBlocks ==
    /\ \A c \in Callers :
        (wpc = "exited" /\ cpc[c] = "waiting" /\ slot[waitId[c]] # "sent")
            ~> (cpc[c] = "idle" /\ lastResult[c] = "ThreadExited")
    /\ \A c \in Callers : (wpc = "exited" /\ cpc[c] = "waiting") ~> (cpc[c] = "idle")
    /\ [][\A c \in Callers :
            (wpc = "exited" /\ cpc[c] = "idle" /\ lastResult'[c] # lastResult[c])
                => lastResult'[c] = "ThreadExited"]_vars

\* C4's case: the worker panicked with a caller's command still queued, and
\* that caller got ThreadExited.
C4_Witness ==
    /\ exitReason = "panic"
    /\ started # <<>>
    /\ started[Len(started)] \notin Range(executed)
    /\ \E i \in Ids : result[i] = "ThreadExited" /\ i \notin Range(started)
    /\ \E c \in Callers : lastResult[c] = "ThreadExited" /\ \A i \in Ids : owner[i] # c

\* C5: with Close enqueued behind other commands, a command counts as
\* successful only if it was executed; the commands ahead of Close are
\* executed and answered before the worker stops, the others' callers get
\* ThreadExited; Close stops the worker between commands only.
C5_CloseBetweenCommands ==
    /\ \A i \in Ids : result[i] = "Resp" => i \in Range(executed)
    /\ \A i \in Ids : result[i] = "ThreadExited" => i \notin Range(executed)
    /\ exitReason = "close" =>
        /\ started = answered
        /\ \A i \in closeBehind : i \in Range(answered)
        /\ \A i \in Ids :
            (owner[i] # "" /\ i \notin Range(answered)) => slot[i] = "txdropped"

\* C5's case: Close was enqueued behind a queued command and ahead of another;
\* the first was answered, the second's caller got ThreadExited.
C5_Witness ==
    /\ exitReason = "close"
    /\ \E i \in closeBehind : result[i] = "Resp"
    /\ \E j \in Ids : j > closeId /\ result[j] = "ThreadExited"

\* C6: registering a name the engine already has fails with NameInUse, and a
\* later call of that name by the engine runs the callback of the
\* registration that succeeded, not the one of the failed registration.
C6_FirstRegistrationStays ==
    /\ (lastOp.op = "add_udf" /\ lastOp.known /\ lastOp.valid /\ ~HasNul(lastOp.name))
        => lastOp.res = "NameInUse"
    /\ lastCall # NoCall => lastCall.ran = lastCall.registered

\* C7: an add_udf that fails with NameInUse or MinArgumentsExceedsMax leaves
\* the user-function table and the pending-string arena as they were.
C7_FailedAddUdfMutatesNothing ==
    [][(nops' = nops + 1 /\ lastOp'.op = "add_udf"
            /\ lastOp'.res \in {"NameInUse", "MinArgumentsExceedsMax"})
        => (udf_map' = udf_map /\ strings_to_drop' = strings_to_drop)]_vars

C9_UndeclaredHandlersNeverInvoked ==
    \A k \in DOMAIN routerLog :
        /\ routerLog[k].ev \in {"read", "unread"} => "READ" \in routerLog[k].supports
        /\ routerLog[k].ev = "write" => "WRITE" \in routerLog[k].supports

\* The restore that was the last command, seen from the state after it.
LastRestore == lastOp.op = "restore_globals"
\* The first entry, in iteration order, that restore_globals cannot apply:
\* its value or name holds a NUL byte, or the engine has no such global.
RestorePanicsAt(k) ==
    LET q == lastOp.order[k] IN
    ConvertPanics(lastOp.globals[q]) \/ HasNul(q[1]) \/ HasNul(q[2])
RestoreFailsAt(k) == RestorePanicsAt(k) \/ lastOp.order[k] \notin DOMAIN lastOp.before
FirstFailure ==
    IF \E k \in DOMAIN lastOp.order : RestoreFailsAt(k)
    THEN CHOOSE k \in DOMAIN lastOp.order :
            RestoreFailsAt(k) /\ \A j \in 1..(k - 1) : ~RestoreFailsAt(j)
    ELSE Len(lastOp.order) + 1

\* C10 as stated: restore_globals given one qualified name that exists in the
\* engine and one that does not (names and values free of NUL bytes) returns
\* DefglobalNotFound, and the existing global holds the value of the mapping.
C10_PresentUpdatedBeforeFailure ==
    LastRestore =>
        \A p, a \in DOMAIN lastOp.globals :
            (/\ DOMAIN lastOp.globals = {p, a}
             /\ \A k \in DOMAIN lastOp.order : ~RestorePanicsAt(k)
             /\ p \in DOMAIN lastOp.before
             /\ a \notin DOMAIN lastOp.before)
            => /\ lastOp.res = "DefglobalNotFound"
               /\ engGlobals[p] = ToEngine(lastOp.globals[p])

\* C10 amended: restore_globals applies the entries in the mapping's iteration
\* order up to the first one it cannot apply; the entries before it hold their
\* new values, every other global is as before, and the result is
\* DefglobalNotFound when that entry names an unknown global (ThreadExited when
\* its name or value holds a NUL byte, Ok when there is no such entry).
C10_EntriesBeforeFailureApplied ==
    LastRestore =>
        LET applied == {lastOp.order[k] : k \in 1..(FirstFailure - 1)} IN
        /\ DOMAIN engGlobals = DOMAIN lastOp.before
        /\ \A q \in applied : engGlobals[q] = ToEngine(lastOp.globals[q])
        /\ \A q \in (DOMAIN engGlobals) \ applied : engGlobals[q] = lastOp.before[q]
        /\ lastOp.res = IF FirstFailure > Len(lastOp.order) THEN "Ok"
                        ELSE IF RestorePanicsAt(FirstFailure) THEN "ThreadExited"
                        ELSE "DefglobalNotFound"

\* C10's case: a two-entry mapping, the present global iterated first and
\* given a new value, the absent one ending the restore with DefglobalNotFound.
C10_Witness ==
    /\ LastRestore
    /\ Len(lastOp.order) = 2
    /\ lastOp.order[1] \in DOMAIN lastOp.before
    /\ lastOp.order[2] \notin DOMAIN lastOp.before
    /\ lastOp.res = "DefglobalNotFound"
    /\ engGlobals[lastOp.order[1]] # lastOp.before[lastOp.order[1]]
    /\ engGlobals[lastOp.order[1]] = ToEngine(lastOp.globals[lastOp.order[1]])

\* Whether a host value holds, at any level, a float that is not finite.
RECURSIVE HasNonFinite(_)
HasNonFinite(v) ==
    \/ v.tag = "Float" /\ ~IsFinite(v.s)
    \/ v.tag = "Multifield" /\ \E k \in 1..Len(v.items) : HasNonFinite(v.items[k])
\* Nesting depth of multifields in a host value.
RECURSIVE Depth(_)
Depth(v) ==
    IF v.tag # "Multifield" THEN 0
    ELSE IF \E k \in 1..Len(v.items) : Depth(v.items[k]) >= 1 THEN 2 ELSE 1

\* C11 as stated: decoding the JSON encoding of any CLIPSValue yields a value
\* equal to it.
C11_JsonRoundTrip ==
    output.fn = "json" => (output.ok /\ ValueEq(output.v, input))

\* C11 amended: decoding the JSON encoding of a CLIPSValue that holds no
\* non-finite float at any level yields an equal value with the same variant
\* at every level; a value holding a non-finite float does not decode.
C11_JsonRoundTripFinite ==
    output.fn = "json" =>
        IF HasNonFinite(input)
        THEN ~output.ok
        ELSE output.ok /\ ValueEq(output.v, input) /\ output.v = input

\* C11's case: a multifield nested to depth 2 has gone through JSON and back.
C11_Witness ==
    /\ output.fn = "json"
    /\ Depth(input) = 2
    /\ \E k \in 1..Len(input.items) : input.items[k].tag = "Symbol"
    /\ output.ok
    /\ output.v = input

\* C12: a scalar host value (free of NUL bytes, and finite if a float)
\* written into the engine and read back with extract_clipsvalue is equal to
\* the value written, and of the same variant.
C12_HostEngineHost ==
    (/\ output.fn = "host_engine_host"
     /\ input.tag # "Multifield"
     /\ ~ConvertPanics(input)
     /\ ~HasNonFinite(input))
        => (output.ok /\ ValueEq(output.v, input))

\* The engine types the snapshot round trip is stated for.
RECURSIVE Snapshotable(_)
Snapshotable(val) ==
    \/ val.type \in {"SYMBOL_TYPE", "INTEGER_TYPE", "STRING_TYPE", "FLOAT_TYPE"}
    \/ val.type = "MULTIFIELD_TYPE" /\ \A k \in 1..Len(val.items) : Snapshotable(val.items[k])

\* C13: an engine value read into a snapshot and written back has the printed
\* form it had before.
C13_EngineHostEngine ==
    (output.fn = "engine_host_engine" /\ Snapshotable(input))
        => (output.ok /\ PrintedForm(output.v) = PrintedForm(input))

\* C14: the extractor reads the symbol TRUE as Bool(true), the symbol FALSE as
\* Bool(false), and any other symbol as Symbol with the same text.
C14_BooleanSymbols ==
    (output.fn = "extract" /\ input.type = "SYMBOL_TYPE")
        => /\ output.ok
           /\ output.v = CASE input.s = "TRUE" -> BoolV(TRUE)
                           [] input.s = "FALSE" -> BoolV(FALSE)
                           [] OTHER -> SymbolV(input.s)

\* C15: while a user-function callback is executing, the function table is
\* absent from the store and has one owner, so an operation the callback
\* issues cannot obtain a second owner of the table.
C15_TableAbsentDuringCallback ==
    wpc = "callback" => (~udfInStore /\ udfOwners <= 1)

\* C16: an operation a callback issues through the handle, and waits for, is
\* eventually answered, and the worker comes back to the head of its loop.
C16_ReentrantCallAnswered ==
    \A i \in Ids : (cbWait = i) ~> (slot[i] = "sent" /\ wpc = "recv")

\* C17: an assert_fact or make_instance command whose names hold no NUL
\* either succeeds or answers its caller with a structured error, and the
\* worker goes on serving: no such command ends in ThreadExited.
C17_CommitOrStructuredFailure ==
    (lastOp.op \in {"assert_fact", "make_instance"} /\ lastOp.valid)
        => /\ lastOp.res \in {"Ok", "SlotNotFound", "UnableToAssertFact",
                              "UnableToMakeInstance", "RuleNetwork"}
           /\ exitReason # "panic"

\* C18: a could-not-assert of the fact builder is answered UnableToAssertFact,
\* a could-not-create of the instance builder UnableToMakeInstance, a
\* rule-network error of either RuleNetwork, whatever the fact builders did
\* before.
C18_ErrorPerKind ==
    /\ (lastOp.op = "assert_fact" /\ lastOp.valid /\ lastOp.h # 0)
        => /\ lastOp.reported = FBE_COULD_NOT_ASSERT_ERROR => lastOp.res = "UnableToAssertFact"
           /\ lastOp.reported = FBE_RULE_NETWORK_ERROR => lastOp.res = "RuleNetwork"
    /\ (lastOp.op = "make_instance" /\ lastOp.valid /\ lastOp.h # 0)
        => /\ lastOp.reported = IBE_COULD_NOT_CREATE_ERROR => lastOp.res = "UnableToMakeInstance"
           /\ lastOp.reported = IBE_RULE_NETWORK_ERROR => lastOp.res = "RuleNetwork"

LogOf(calls) == {k \in DOMAIN engLog : engLog[k].call \in calls}

EnvironmentCreated == wpc # "starting" /\ ~(exitReason = "panic" /\ started = <<>>)

\* C21: the worker leaves its loop on Close and on a disconnected channel;
\* the native environment is destroyed only after the loop was left, and
\* once; and when the handle was dropped or closed, the environment of a
\* worker that entered its loop is eventually destroyed.
C21_LoopExitReleasesEngine ==
    /\ [](Cardinality(LogOf({"DestroyEnvironment"})) <= 1)
    /\ [](envState = "destroyed" <=> Cardinality(LogOf({"DestroyEnvironment"})) = 1)
    /\ [](envState = "destroyed" => wpc = "exited")
    /\ [][(wpc = "recv" /\ wpc' # "recv" /\ queue # <<>> /\ Head(queue).kind = "Close")
            => (wpc' = "exited" /\ exitReason' = "close")]_vars
    /\ [][(wpc = "recv" /\ wpc' # "recv" /\ queue = <<>>)
            => (~txAlive /\ wpc' = "exited" /\ exitReason' = "disconnected")]_vars
    /\ (((~txAlive \/ closeId # 0) /\ EnvironmentCreated) ~> envState = "destroyed")

\* The handle was dropped, the worker found the channel disconnected and its
\* environment was destroyed.
C21_Witness == envState = "destroyed" /\ exitReason = "disconnected" /\ started # <<>>

\* C22: after a marshalling call that returned, be it the conversion of a
\* Multifield value or put_multifield_slot, no multifield builder is live.
C22_NoLiveMultifieldBuilder ==
    (output.fn \in {"into_multifield", "put_multifield_slot"} /\ output.ok) => mbLive = 0

\* C23: a chdir command on an Environment leaves the working directory seen
\* by every other thread (the callers, the workers of the other Environments)
\* as it was; when it succeeds its own worker is in the directory it named.
C23_ChdirIsolated ==
    [][lastChdir' # lastChdir =>
        /\ \A t \in Threads \ {lastChdir'.env} : cwd'[fsOf'[t]] = cwd[fsOf[t]]
        /\ lastChdir'.ok => cwd'[fsOf'[lastChdir'.env]] = lastChdir'.dir]_vars

\* A chdir command succeeded on one Environment while the worker of the other
\* serves commands, and its worker is in a directory no other thread is in.
C23_Witness ==
    /\ lastChdir.env \in Envs
    /\ lastChdir.ok
    /\ \A e \in Envs : envPc[e] = "recv"
    /\ \A t \in Threads \ {lastChdir.env} : CwdSeen(t) # CwdSeen(lastChdir.env)

\* The router invocations of the run that was last completed.
LastRun == {k \in DOMAIN routerLog : k > lastOp.from}

\* C24: when a run or run_limit command has completed, every router whose
\* registration with the SIGNAL capability succeeded has received, within
\* that run, one RunStarted and one RunFinished, both with the limit of the
\* command, and its write invocations of that run are between the two.
C24_SignalsAroundRun ==
    (lastOp.op \in {"run", "run_limit"} /\ lastOp.res = "Ok") =>
        \A name \in DOMAIN registered :
            "SIGNAL" \in registered[name].supports =>
                LET mine == {k \in LastRun : routerLog[k].rid = registered[name].rid}
                    began == {k \in mine : routerLog[k].ev = "RunStarted"}
                    ended == {k \in mine : routerLog[k].ev = "RunFinished"}
                IN
                /\ Cardinality(began) = 1
                /\ Cardinality(ended) = 1
                /\ \A k \in began \cup ended : routerLog[k].limit = lastOp.limit
                /\ \A k \in mine : \A b \in began : \A e \in ended :
                    routerLog[k].ev = "write" => (b < k /\ k < e)

\* C25: whatever operation of the worker the callers want, a bounded run
\* (RunLimit) included, once the worker serves commands it eventually
\* executes that command for them.
C25_OperationsReachable ==
    (wpc = "recv" /\ started = <<>>) ~> (wpc = "exec" /\ cur.kind = Wanted)

\* The type tag that belongs to a host type, and the kind expected for it.
TagOf(T) ==
    CASE T \in {"usize", "u64"} -> "INTEGER_TYPE"
      [] T = "f64" -> "FLOAT_TYPE"
      [] T = "String" -> "STRING_TYPE"
      [] T \in {"CLIPSSymbol", "bool"} -> "SYMBOL_TYPE"
      [] T = "CLIPSInstanceName" -> "INSTANCE_NAME_TYPE"
ExpectedKind(T) ==
    CASE T \in {"usize", "u64"} -> "integer"
      [] T = "f64" -> "float"
      [] T = "String" -> "string"
      [] T = "CLIPSSymbol" -> "symbol"
      [] T = "bool" -> "bool (symbol)"
      [] T = "CLIPSInstanceName" -> "instance name"

\* C26: the conversion of a retrieved argument to a host type succeeds only
\* when the value has the type tag of that host type, and otherwise fails
\* with InvalidType carrying the kind expected for that host type.
C26_InvalidTypeNamesExpected ==
    (output.fn = "nth_arg" /\ output.retrieved) =>
        /\ output.ok => input.type = TagOf(output.ty)
        /\ input.type # TagOf(output.ty) =>
            (~output.ok /\ output.err = "InvalidType" /\ output.kind = ExpectedKind(output.ty))

\* C27: the conversion of a symbol to bool gives true for TRUE, false for
\* FALSE, and fails with ValueNotBoolean for any other lexeme.
C27_SymbolToBool ==
    (output.fn = "nth_arg" /\ output.retrieved /\ output.ty = "bool"
        /\ input.type = "SYMBOL_TYPE") =>
        CASE input.s = "TRUE" -> output.ok /\ output.v = BoolV(TRUE)
          [] input.s = "FALSE" -> output.ok /\ output.v = BoolV(FALSE)
          [] OTHER -> ~output.ok /\ output.err = "ValueNotBoolean"

\* C28: a failed binary load of facts is answered UnableToLoadFacts, a failed
\* binary load of instances UnableToLoadInstances, a failed save
\* UnableToSaveFacts or UnableToSaveInstances, and the save errors come from
\* saves only; a successful operation is answered with the engine's count.
C28_PersistenceErrorOfOwnKind ==
    (lastOp.op \in {"binary_save_facts", "binary_load_facts", "binary_save_instances",
                    "binary_load_instances"} /\ ~HasNul(lastOp.name)) =>
        /\ lastOp.engine = EngineFailure =>
            lastOp.res = CASE lastOp.op = "binary_save_facts" -> "UnableToSaveFacts"
                           [] lastOp.op = "binary_load_facts" -> "UnableToLoadFacts"
                           [] lastOp.op = "binary_save_instances" -> "UnableToSaveInstances"
                           [] lastOp.op = "binary_load_instances" -> "UnableToLoadInstances"
        /\ lastOp.res \in {"UnableToSaveFacts", "UnableToSaveInstances"} =>
            lastOp.op \in {"binary_save_facts", "binary_save_instances"}
        /\ lastOp.engine # EngineFailure => (lastOp.res = "Ok" /\ lastOp.count = lastOp.engine)

\* The errors the claim names for a failed slot assignment, per engine code.
SlotErrors ==
    [c \in {PSE_INVALID_TARGET_ERROR, PSE_SLOT_NOT_FOUND_ERROR, PSE_TYPE_ERROR, PSE_RANGE_ERROR,
            PSE_ALLOWED_VALUES_ERROR, PSE_CARDINALITY_ERROR, PSE_ALLOWED_CLASSES_ERROR} |->
        CASE c = PSE_INVALID_TARGET_ERROR -> "FactOrInstanceRemoved"
          [] c = PSE_SLOT_NOT_FOUND_ERROR -> "SlotNotFound"
          [] c = PSE_TYPE_ERROR -> "SlotTypeViolated"
          [] c = PSE_RANGE_ERROR -> "SlotRangeViolated"
          [] c = PSE_ALLOWED_VALUES_ERROR -> "SlotAllowedValuesViolated"
          [] c = PSE_CARDINALITY_ERROR -> "SlotCardinalityViolated"
          [] c = PSE_ALLOWED_CLASSES_ERROR -> "SlotAllowedClassesViolated"]

\* C29: a put the engine refuses is answered with one of the seven slot
\* errors, a different one per engine code, and a put the engine accepts with
\* Ok; a refused put leaves the construction going (the worker is still in
\* into_fact_or_instance, or the construction came to its end); and at the end
\* the commit was made exactly when into_fact_or_instance returned Ok. Slot
\* names with a NUL byte are left aside.
C29_SlotFailureReported ==
    (building.nputs > 0 /\ ~HasNul(building.last.slot)) =>
        /\ building.last.code = PSE_NO_ERROR => building.last.res = "Ok"
        /\ building.last.code # PSE_NO_ERROR =>
            /\ building.last.res \in Range(SlotErrors)
            /\ building.last.code \in DOMAIN SlotErrors =>
                  building.last.res = SlotErrors[building.last.code]
        /\ ~building.done => wpc = "building"
        /\ building.done => (building.committed <=> building.ret = "Ok")

\* Whether a list of facts holds a fact of template "t" whose slot x is 5.
HasX5(facts) ==
    \E i \in 1..Len(facts) :
        /\ facts[i].template = "t"
        /\ "x" \in DOMAIN facts[i].slots
        /\ facts[i].slots["x"] = 5

\* C30: when assert_fact for template "t", with slot x put to 5, returns Ok,
\* the engine's facts hold a fact with x = 5; every later step of the worker
\* on this environment (a run in progress included) finds it there still; and
\* a later binary save of the facts writes it.
C30_AssertedFactVisible ==
    /\ [][(/\ wpc = "building"
           /\ building.kind = "fact"
           /\ building.name = "t"
           /\ building'.done
           /\ lastOp'.res = "Ok"
           /\ "x" \in DOMAIN fbValues[building.h]
           /\ fbValues[building.h]["x"] = 5) => HasX5(engFacts')]_vars
    /\ [][HasX5(engFacts) => HasX5(engFacts')]_vars
    /\ [][(HasX5(engFacts) /\ nops' # nops /\ lastOp'.op = "binary_save_facts"
           /\ lastOp'.res = "Ok") => HasX5(files'[lastOp'.name].items)]_vars

\* C30's case: a run in progress after assert_fact put x = 5 and returned Ok,
\* and the facts were saved before the run.
C30_Witness ==
    /\ wpc = "running"
    /\ HasX5(engFacts)
    /\ "f1" \in DOMAIN files
    /\ HasX5(files["f1"].items)

\* C31: an add_router that failed with AddRouter has left the router table as
\* it was: the name is still bound to the router whose registration
\* succeeded, and every query and write callback made for a name went to the
\* router registered under it.
C31_FailedAddRouterKeepsTable ==
    /\ (lastOp.op = "add_router" /\ lastOp.res = "AddRouter") =>
        /\ lastOp.name \in DOMAIN registered
        /\ router_map[lastOp.name] = registered[lastOp.name]
    /\ \A k \in DOMAIN routerLog :
        routerLog[k].ev \in {"query", "write"} =>
            /\ routerLog[k].name \in DOMAIN registered
            /\ routerLog[k].rid = registered[routerLog[k].name].rid

\* C32: no signal is ever delivered to a router whose capability set lacks
\* SIGNAL, and when a run has completed every router that was registered
\* declaring SIGNAL has been notified within that run.
C32_SignalOnlyIfDeclared ==
    /\ \A k \in DOMAIN routerLog :
        routerLog[k].ev \in {"RunStarted", "RunFinished"} => "SIGNAL" \in routerLog[k].supports
    /\ (lastOp.op \in {"run", "run_limit"} /\ lastOp.res = "Ok") =>
        \A name \in DOMAIN registered :
            "SIGNAL" \in registered[name].supports =>
                \E k \in LastRun : /\ routerLog[k].rid = registered[name].rid
                                   /\ routerLog[k].ev \in {"RunStarted", "RunFinished"}

\* C33: a host instance name converted outbound is an engine value tagged as
\* an instance name; read back as CLIPSInstanceName it gives the same text;
\* and it is not the engine value of the symbol with the same text.
C33_InstanceNameOutbound ==
    (output.fn = "from" /\ input.ty = "CLIPSInstanceName") =>
        /\ output.engine.type = "INSTANCE_NAME_TYPE"
        /\ output.back.ok
        /\ output.back.v = InstanceNameV(input.s)
        /\ output.engine # from("CLIPSSymbol", input)

\* C39: an unsigned host number converted outbound is an engine integer of
\* the same value, and an engine integer read as unsigned is the host number
\* of the same value, also for numbers of 2^63 or more and for negative
\* engine integers.
C39_UnsignedValuePreserved ==
    /\ (output.fn = "from" /\ input.ty \in UnsignedTypes) => output.engine.i = input.w
    /\ output.fn = "try_from" => (output.back.ok /\ output.back.v.w = input.w)

\* C34: an assert_fact or make_instance command that names a template or
\* class for which the engine creates no builder is answered with an error
\* value, and the worker does not panic.
C34_UnknownDefinitionIsAnError ==
    (lastOp.op \in {"assert_fact", "make_instance"} /\ lastOp.valid
        /\ lastOp.name \notin EngineDefinitions) =>
        /\ lastOp.res \notin {"Ok", "ThreadExited"}
        /\ exitReason # "panic"

\* C35: no entry of the fact-builder cache or of the instance-builder cache
\* is the null pointer.
C35_CachedBuildersAreValid ==
    /\ \A name \in DOMAIN fact_builders : fact_builders[name] # 0
    /\ \A name \in DOMAIN instance_builders : instance_builders[name] # 0

\* C36: a fact asserted, or an instance made, holds the slot values that
\* were put during its own construction and no others.
C36_NoSlotCarriedOver ==
    (building.done /\ building.committed /\ lastOp.res = "Ok") =>
        LET made == IF building.kind = "fact" THEN engFacts ELSE engInstances IN
        made[Len(made)].slots = building.own

C38_NamesLiveUntilTeardown ==
    /\ [](envState # "destroyed" =>
            /\ \A p \in DOMAIN cstrings :
                /\ cstrings[p].frees = 0
                /\ Cardinality({j \in DOMAIN strings_to_drop : strings_to_drop[j] = p}) = 1
            /\ \A n \in engFuncs :
                \E p \in DOMAIN cstrings : cstrings[p] = [name |-> n, kind |-> "udf", frees |-> 0]
            /\ \A n \in DOMAIN engRouters :
                \E p \in DOMAIN cstrings :
                    cstrings[p] = [name |-> n, kind |-> "router", frees |-> 0])
    /\ [](envState = "destroyed" => \A p \in DOMAIN cstrings : cstrings[p].frees = 1)
    /\ [][(nops' = nops + 1 /\ ~HasNul(lastOp'.name)
                /\ lastOp'.op \in {"add_udf", "add_router", "remove_udf"}) =>
            /\ \A p \in DOMAIN cstrings : cstrings'[p] = cstrings[p]
            /\ IF lastOp'.op = "remove_udf"
               THEN cstrings' = cstrings /\ strings_to_drop' = strings_to_drop
               ELSE /\ Len(cstrings') = Len(cstrings) + 1
                    /\ cstrings'[Len(cstrings')].name = lastOp'.name
                    /\ strings_to_drop' = Append(strings_to_drop, Len(cstrings'))]_vars
    /\ [][(\E p \in DOMAIN cstrings : cstrings'[p].frees # cstrings[p].frees) =>
            (envState = "alive" /\ envState' = "destroyed")]_vars

\* C38's case: the environment was destroyed after a function was removed,
\* a registration had failed, and a router had been added.
C38_Witness ==
    /\ envState = "destroyed"
    /\ \E p, q \in DOMAIN cstrings :
        /\ p < q
        /\ cstrings[p].name = cstrings[q].name
        /\ cstrings[p].frees = 1 /\ cstrings[q].frees = 1
    /\ \E p \in DOMAIN cstrings : cstrings[p].kind = "router"
    /\ \E p \in DOMAIN cstrings : cstrings[p].kind = "udf" /\ cstrings[p].name \notin engFuncs

====
